---------------------------- MODULE Spec2Model ----------------------------
(***************************************************************************)
(* Resumator: the resume preprocessor (lib/resumePreprocess.ts), the       *)
(* universal template helpers (lib/universalTemplateHelpers.ts) and the    *)
(* layout optimizer (lib/layoutOptimizer.ts).                              *)
(*                                                                         *)
(* JavaScript values are tagged records, so that a wrong-typed field is a  *)
(* value of the model and the TypeError it raises is an outcome.  Strings  *)
(* are run-length encoded: a sequence of runs [c, n], no two adjacent runs *)
(* with the same character, so that equal strings are equal values and a   *)
(* 2200 character text is one run.                                         *)
(***************************************************************************)
EXTENDS Integers, Sequences, FiniteSets, TLC

VARIABLES
    given,      \* the value handed to preprocessResume (never changes)
    input,      \* the caller's object, as it is after the calls made so far
    pc,         \* "idle", "done" (one call made), "twice" (result fed back)
    out1,       \* outcome of preprocessResume(given)
    out2,       \* outcome of preprocessResume(out1.rec)
    layoutData,     \* the record handed to analyzeContent and optimizeLayout
    layoutTemplate, \* the template kind handed to optimizeLayout
    layoutPc,       \* "idle", "analyzed", "optimized"; "off" when not in use
    layoutMetrics,  \* the ContentMetrics analyzeContent returned
    layoutResult,   \* the LayoutConfig optimizeLayout returned
    usage,      \* GeminiModelSelector.usage: the counters of each model
    now,        \* the clock, in minutes: Math.floor(Date.now() / (1000 * 60))
    born,       \* the minute the selector was constructed in
    inFlight,   \* per model, the requests that were given it and have not recorded
    started,    \* the requests that have called a selection so far
    recorded,   \* per name and minute, the recordUsage calls made: count and tokens
    lastCall,   \* the selector method called last, its arguments and what it returned
    page,       \* the component that is mounted: "preview", "gallery", "home"
    raw,        \* the record the component holds before preprocessing
    handed,     \* the data handed to renderTemplate or to router.push
    shownError, \* the error messages the last handler put on the screen
    step,       \* how far the component's handlers have come
    loading,    \* HomeContent: loading
    loadingProgress, \* HomeContent: loadingProgress
    intervals,  \* HomeContent: the runs whose progressInterval is still set
    timeoutArmed,    \* HomeContent: the 30 s abort timer is still set
    runs        \* HomeContent: the runs of handleSubmit that went past validation

preprocessVars == <<given, input, pc, out1, out2>>
layoutVars == <<layoutData, layoutTemplate, layoutPc, layoutMetrics, layoutResult>>
selectorVars == <<usage, now, born, inFlight, started, recorded, lastCall>>
callerVars == <<page, raw, handed, shownError, step, loading, loadingProgress, intervals,
                timeoutArmed, runs>>
vars == <<preprocessVars, layoutVars, selectorVars, callerVars>>

-----------------------------------------------------------------------------
(* Bounds of the explored inputs                                           *)

MaxExp == 8          \* experience entries of an input
MaxEdu == 7          \* education entries of an input
MaxAch == 14         \* pre-existing achievements of an input
MaxBullets == 5      \* bullets of one experience entry
MaxSimple == 31      \* entries of skills / softSkills / languages
MaxCert == 21        \* certifications of an input
MaxOther == 2        \* volunteer entries and interests of an input
MaxSlack == 3        \* padded inputs have MEDIUM_CHARS - MaxSlack .. MEDIUM_CHARS characters
MaxRequests == 6     \* requests served by the one selector
MaxTicks == 1        \* minutes the clock advances
MaxRecords == 2      \* recordUsage calls made on their own
MaxSubmits == 2      \* runs of handleSubmit that go past validation

-----------------------------------------------------------------------------
(* Strings                                                                 *)

Min(a, b) == IF a < b THEN a ELSE b
Max(a, b) == IF a > b THEN a ELSE b

\* the string of n copies of the character c
Rep(c, n) == IF n <= 0 THEN <<>> ELSE <<[c |-> c, n |-> n]>>

\* a + b
Cat(a, b) ==
    IF a = <<>> THEN b
    ELSE IF b = <<>> THEN a
    ELSE IF a[Len(a)].c = b[1].c
         THEN SubSeq(a, 1, Len(a) - 1)
              \o <<[c |-> b[1].c, n |-> a[Len(a)].n + b[1].n]>>
              \o Tail(b)
         ELSE a \o b

RECURSIVE Chars(_)
\* the string of the given characters, e.g. Chars(<<"n","u","l","l">>)
Chars(cs) == IF cs = <<>> THEN <<>> ELSE Cat(Rep(cs[1], 1), Chars(Tail(cs)))

RECURSIVE StrLen(_)
\* s.length
StrLen(s) == IF s = <<>> THEN 0 ELSE s[1].n + StrLen(Tail(s))

\* the characters String.prototype.trim removes
IsWhite(c) == c \in {" ", "\t", "\n"}

RECURSIVE TrimLeft(_)
TrimLeft(s) ==
    IF s = <<>> THEN <<>>
    ELSE IF IsWhite(s[1].c) THEN TrimLeft(Tail(s)) ELSE s

RECURSIVE TrimRight(_)
TrimRight(s) ==
    IF s = <<>> THEN <<>>
    ELSE IF IsWhite(s[Len(s)].c) THEN TrimRight(SubSeq(s, 1, Len(s) - 1)) ELSE s

\* s.trim()
Trim(s) == TrimRight(TrimLeft(s))

RECURSIVE Slice0(_, _)
\* s.slice(0, k) for k >= 0
Slice0(s, k) ==
    IF s = <<>> \/ k <= 0 THEN <<>>
    ELSE IF s[1].n <= k THEN <<s[1]>> \o Slice0(Tail(s), k - s[1].n)
    ELSE <<[c |-> s[1].c, n |-> k]>>

RECURSIVE SliceFrom(_, _)
\* s.slice(k) for k >= 0
SliceFrom(s, k) ==
    IF s = <<>> \/ k <= 0 THEN s
    ELSE IF s[1].n <= k THEN SliceFrom(Tail(s), k - s[1].n)
    ELSE <<[c |-> s[1].c, n |-> s[1].n - k]>> \o Tail(s)

\* s.charAt(k - 1): the k-th character, "" past the end
CharAt(s, k) == LET r == SliceFrom(s, k - 1) IN IF r = <<>> THEN "" ELSE r[1].c

\* s.includes(t): the first run of t ends a run of s, the last one starts a
\* run of s, and the runs between them are runs of s
Includes(s, t) ==
    IF t = <<>> THEN TRUE
    ELSE \E i \in 1..(Len(s) - Len(t) + 1) :
            LET last == i + Len(t) - 1
            IN  /\ s[i].c = t[1].c
                /\ s[last].c = t[Len(t)].c
                /\ IF Len(t) = 1 THEN s[i].n >= t[1].n
                   ELSE /\ s[i].n >= t[1].n
                        /\ s[last].n >= t[Len(t)].n
                        /\ \A j \in 2..(Len(t) - 1) : s[i + j - 1] = t[j]

-----------------------------------------------------------------------------
(* JavaScript values                                                       *)

Str(s) == [ty |-> "string", str |-> s, num |-> 0, items |-> <<>>]
Num(k) == [ty |-> "number", str |-> <<>>, num |-> k, items |-> <<>>]
Undefined == [ty |-> "undefined", str |-> <<>>, num |-> 0, items |-> <<>>]
Null == [ty |-> "null", str |-> <<>>, num |-> 0, items |-> <<>>]
Arr(xs) == [ty |-> "array", str |-> <<>>, num |-> 0, items |-> xs]

\* Boolean(v)
Truthy(v) ==
    CASE v.ty = "string" -> v.str # <<>>
      [] v.ty = "number" -> v.num # 0
      [] v.ty = "array" -> TRUE
      [] OTHER -> FALSE

\* v || ""
OrEmpty(v) == IF Truthy(v) THEN v ELSE Str(<<>>)

\* Array.isArray(v)
IsArray(v) == v.ty = "array"

Digit(d) == <<"0", "1", "2", "3", "4", "5", "6", "7", "8", "9">>[d + 1]

RECURSIVE Digits(_)
\* String(k) for an integer k >= 0
Digits(k) ==
    IF k < 10 THEN Rep(Digit(k), 1)
    ELSE Cat(Digits(k \div 10), Rep(Digit(k % 10), 1))

\* `${v}` for a primitive v
Stringify(v) ==
    CASE v.ty = "string" -> v.str
      [] v.ty = "number" -> Digits(v.num)
      [] v.ty = "null" -> Chars(<<"n", "u", "l", "l">>)
      [] OTHER -> Chars(<<"u", "n", "d", "e", "f", "i", "n", "e", "d">>)

\* the element of Array.prototype.join: null and undefined join as ""
JoinItem(v) == IF v.ty \in {"null", "undefined"} THEN <<>> ELSE Stringify(v)

RECURSIVE SumOver(_, _)
\* the sum of f[i] for i in 1..n
SumOver(f, n) == IF n = 0 THEN 0 ELSE f[n] + SumOver(f, n - 1)

\* parts.join(" ").length, from the lengths of the parts
JoinLen(lens) == IF Len(lens) = 0 THEN 0 ELSE SumOver(lens, Len(lens)) + (Len(lens) - 1)

RECURSIVE Join(_, _)
\* parts.join(sep)
Join(ss, sep) ==
    IF ss = <<>> THEN <<>>
    ELSE IF Len(ss) = 1 THEN ss[1]
    ELSE Cat(Cat(ss[1], sep), Join(Tail(ss), sep))

\* xs.slice(0, k) of an array
Take(xs, k) == SubSeq(xs, 1, Min(Len(xs), k))

\* xs.slice(k) of an array
Drop(xs, k) == SubSeq(xs, Min(Len(xs), k) + 1, Len(xs))

RECURSIVE Dedupe(_)
\* Array.from(new Set(xs)): each value once, at its first position
Dedupe(xs) ==
    IF xs = <<>> THEN <<>>
    ELSE LET init == Dedupe(SubSeq(xs, 1, Len(xs) - 1))
             last == xs[Len(xs)]
         IN  IF \E i \in 1..Len(init) : init[i] = last THEN init
             ELSE Append(init, last)

Range(xs) == {xs[i] : i \in 1..Len(xs)}

-----------------------------------------------------------------------------
(* The explored inputs.  An input is a resume object (or null/undefined);  *)
(* a list field holds Arr(entries) or, when missing, Undefined.            *)

ListFields == {"experience", "education", "certifications", "achivements",
               "volunteer", "skills", "softSkills", "languages", "interests"}

\* a label and a number: "R" and 7 give "R7"
Named(c, i) == Cat(Rep(c, 1), Digits(i))

BulletKinds == {"short", "long", "gap", "atCompact", "overCompact", "atNormal", "overNormal"}

\* the k-th bullet of an entry; "gap" has a space as 119th and as 219th character
BulletText(kind, k) ==
    CASE kind = "short" -> IF k = 1 THEN Cat(Rep(" ", 1), Cat(Named("b", k), Rep(" ", 2)))
                           ELSE Named("b", k)
      [] kind = "long" -> Rep("x", 300)
      [] kind = "gap" -> Cat(Rep("x", 118), Cat(Rep(" ", 1),
                         Cat(Rep("y", 99), Cat(Rep(" ", 1), Rep("z", 81)))))
      [] kind = "atCompact" -> Rep("x", 120)
      [] kind = "overCompact" -> Rep("x", 121)
      [] kind = "atNormal" -> Rep("x", 220)
      [] OTHER -> Rep("x", 221)

Malformations ==
    {"none", "nullExp", "descString", "descEmpty", "blankExp", "numBullet", "nullBullet",
     "nullEdu", "eduYearNum", "nullCert", "certYearNum", "numSkill", "nullSkill",
     "undefBullet", "nullAch", "nullVol", "volDescString", "missingLists"}

NullEntry == [nul |-> TRUE, a |-> Undefined, b |-> Undefined, c |-> Undefined,
              description |-> Undefined]

\* an object of a list: experience {role, company, duration, description},
\* education {degree, school, year}, certification {name, year},
\* volunteer {role, org, description}; a, b, c are its scalar fields in that order
Entry(a, b, c, d) == [nul |-> FALSE, a |-> a, b |-> b, c |-> c, description |-> d]

ExpEntry(i, nb, kind, mal) ==
    IF mal = "nullExp" /\ i = 1 THEN NullEntry
    ELSE IF mal = "blankExp" /\ i = 2
    THEN Entry(Str(<<>>), Undefined, Str(Chars(<<"2", "0", "2", "0">>)), Arr(<<>>))
    ELSE Entry(
        Str(IF i = 7 THEN Cat(Rep(" ", 1), Named("R", i)) ELSE Named("R", i)),
        Str(Named("C", i)),
        IF i = 4 THEN Undefined ELSE Str(Chars(<<"2", "0", "2", "0">>)),
        CASE mal = "descString" /\ i = 1 -> Str(Chars(<<"d", "i", "d">>))
          [] mal = "descEmpty" /\ i = 1 -> Str(<<>>)
          [] OTHER ->
                Arr([k \in 1..nb |->
                        IF mal = "numBullet" /\ i = 1 /\ k = 1 THEN Num(7)
                        ELSE IF mal = "nullBullet" /\ i = 1 /\ k = 1 THEN Null
                        ELSE IF mal = "undefBullet" /\ i = 1 /\ k = 1 THEN Undefined
                        ELSE Str(BulletText(kind, k))]))

EduEntry(i, n, mal) ==
    IF mal = "nullEdu" /\ i = 1 THEN NullEntry
    ELSE Entry(Str(Named("D", i)), Str(Named("S", i)),
               IF mal = "eduYearNum" /\ i = n THEN Num(2019)
               ELSE Str(Chars(<<"2", "0", "1", "9">>)),
               Undefined)

\* certification 2 repeats certification 1
CertEntry(i, mal) ==
    IF mal = "nullCert" /\ i = 1 THEN NullEntry
    ELSE Entry(Str(Named("c", IF i = 2 THEN 1 ELSE i)),
               IF mal = "certYearNum" /\ i = 1 THEN Num(2021)
               ELSE Str(Chars(<<"2", "0", "2", "1">>)),
               Undefined, Undefined)

VolEntry(i, mal) ==
    IF mal = "nullVol" /\ i = 1 THEN NullEntry
    ELSE Entry(Str(Named("V", i)), Str(Named("O", i)), Undefined,
               IF mal = "volDescString" /\ i = 1 THEN Str(Chars(<<"d", "i", "d">>))
               ELSE Arr(<<Str(Named("v", i))>>))

\* the i-th string of a list of strings: the 2nd is the 1st with blanks around
\* it, the 3rd is the 1st in the other case
SimpleItem(c, upper, i, bad) ==
    IF i = 1 /\ bad = "num" THEN Num(42)
    ELSE IF i = 1 /\ bad = "null" THEN Null
    ELSE IF i = 2 THEN Str(Cat(Rep(" ", 1), Cat(Named(c, 1), Rep(" ", 1))))
    ELSE IF i = 3 THEN Str(Named(upper, 1))
    ELSE Str(Named(c, i))

SimpleList(c, upper, n, bad) == Arr([i \in 1..n |-> SimpleItem(c, upper, i, bad)])

Bad(mal, nullCase, numCase) ==
    IF mal = nullCase THEN "null" ELSE IF mal = numCase THEN "num" ELSE "ok"

\* an input without its title; p gives the list lengths and the malformation
BaseInput(p) ==
    LET list(xs) == IF p.mal = "missingLists" THEN Undefined ELSE Arr(xs)
    IN  [ty |-> "object",
         name |-> IF p.nameLen = 0 THEN Undefined ELSE Str(Rep("N", p.nameLen)),
         title |-> Undefined,
         photoUrl |-> IF p.photo THEN Str(Chars(<<"p", ".", "p", "n", "g">>)) ELSE Undefined,
         contact |-> [phone |-> Undefined, email |-> Str(Chars(<<"a", "@", "b">>)),
                      address |-> Str(<<>>), linkedin |-> Undefined],
         summary |-> IF p.summaryLen = 0 THEN Undefined ELSE Str(Rep("s", p.summaryLen)),
         experience |-> list([i \in 1..p.nExp |-> ExpEntry(i, p.nb, p.kind, p.mal)]),
         education |-> list([i \in 1..p.nEdu |-> EduEntry(i, p.nEdu, p.mal)]),
         certifications |-> list([i \in 1..p.nCert |-> CertEntry(i, p.mal)]),
         achivements |-> list(SimpleList("a", "A", p.nAch, Bad(p.mal, "nullAch", "-")).items),
         volunteer |-> list([i \in 1..p.nVol |-> VolEntry(i, p.mal)]),
         skills |-> list(SimpleList("k", "K", p.nSimple, Bad(p.mal, "nullSkill", "numSkill")).items),
         softSkills |-> list(SimpleList("f", "F", p.nSimple, "ok").items),
         languages |-> list(SimpleList("l", "L", p.nSimple, "ok").items),
         interests |-> list(SimpleList("i", "I", p.nInt, "ok").items)]

NullInput == [BaseInput([nameLen |-> 0, photo |-> FALSE, summaryLen |-> 0, nExp |-> 0,
                         nb |-> 0, kind |-> "short", nEdu |-> 0, nCert |-> 0, nAch |-> 0,
                         nVol |-> 0, nSimple |-> 0, nInt |-> 0, mal |-> "missingLists"])
              EXCEPT !.ty = "null"]

UndefinedInput == [NullInput EXCEPT !.ty = "undefined"]

-----------------------------------------------------------------------------
(* lib/universalTemplateHelpers.ts                                         *)

ObjectLists == {"experience", "education", "certifications", "volunteer"}

\* validateResumeData: a new object; every scalar defaults to "", every list
\* field that is not an array to [].  `data?.x` reads undefined off null.
validateResumeData(data) ==
    LET absent == data.ty # "object"
        text(v) == IF absent THEN Str(<<>>) ELSE OrEmpty(v)
        list(v) == IF ~absent /\ IsArray(v) THEN v ELSE Arr(<<>>)
    IN  [ty |-> "object",
         name |-> text(data.name),
         title |-> text(data.title),
         photoUrl |-> text(data.photoUrl),
         contact |-> [phone |-> text(data.contact.phone),
                      email |-> text(data.contact.email),
                      address |-> text(data.contact.address),
                      linkedin |-> text(data.contact.linkedin)],
         summary |-> text(data.summary),
         experience |-> list(data.experience),
         education |-> list(data.education),
         certifications |-> list(data.certifications),
         achivements |-> list(data.achivements),
         volunteer |-> list(data.volunteer),
         skills |-> list(data.skills),
         softSkills |-> list(data.softSkills),
         languages |-> list(data.languages),
         interests |-> list(data.interests)]

\* which arrays and entry objects of validateResumeData's result are the
\* caller's own: an array that passes Array.isArray is returned by reference
ValidatedRefs(data) ==
    [obj |-> "validated",
     lists |-> [f \in ListFields |->
                  IF data.ty = "object" /\ IsArray(data[f]) THEN "input" ELSE "fresh"],
     entries |-> [f \in ObjectLists |->
                  IF data.ty = "object" /\ IsArray(data[f]) THEN "input" ELSE "fresh"]]

\* exp.description?.length || 0
DescriptionLength(e) ==
    CASE e.description.ty = "array" -> Len(e.description.items)
      [] e.description.ty = "string" -> StrLen(e.description.str)
      [] OTHER -> 0

\* estimateContentHeight reads exp.description off every experience entry
EstimateThrows(data) == \E i \in 1..Len(data.experience.items) : data.experience.items[i].nul

\* estimateContentHeight, in quarter pixels (summary.length / 80 * 20 is a
\* quarter pixel per character)
estimateContentHeight(data) ==
    LET exp == data.experience.items
        n(f) == Len(data[f].items)
    IN  4 * 80
        + (IF Truthy(data.summary) THEN Max(4 * 40, StrLen(data.summary.str)) ELSE 0)
        + 4 * (n("experience") * 60)
        + 4 * SumOver([i \in 1..Len(exp) |-> DescriptionLength(exp[i]) * 20], Len(exp))
        + 4 * (n("education") * 40)
        + (IF n("achivements") > 0 THEN 4 * Min(n("achivements") * 20, 100) ELSE 0)
        + (IF n("volunteer") > 0 THEN 4 * (n("volunteer") * 50) ELSE 0)
        + (IF n("skills") > 0 THEN 4 * 40 ELSE 0)
        + (IF n("softSkills") > 0 THEN 4 * 30 ELSE 0)
        + (IF n("certifications") > 0 THEN 4 * (n("certifications") * 25) ELSE 0)
        + (IF n("languages") > 0 THEN 4 * 30 ELSE 0)
        + (IF n("interests") > 0 THEN 4 * 30 ELSE 0)

-----------------------------------------------------------------------------
(* lib/layoutOptimizer.ts                                                  *)

usableHeight == 1059

\* Math.ceil(a / b) for a >= 0, b > 0
CeilDiv(a, b) == (a + b - 1) \div b

\* analyzeContent reads exp.description off every experience entry
AnalyzeThrows(data) == \E i \in 1..Len(data.experience.items) : data.experience.items[i].nul

\* the test for dense made before the test for overflow
contentDensityDenseFirst(estimatedHeight) ==
    IF estimatedHeight * 100 > usableHeight * 85 THEN "dense"
    ELSE IF estimatedHeight * 100 > usableHeight * 110 THEN "overflow"
    ELSE IF estimatedHeight * 100 < usableHeight * 60 THEN "sparse"
    ELSE "normal"

\* lines 129-137: usableHeight * 1.1, * 0.85 and * 0.6 against a whole number
\* of pixels
contentDensityOf(estimatedHeight) ==
    IF estimatedHeight * 100 > usableHeight * 110 THEN "overflow"
    ELSE IF estimatedHeight * 100 > usableHeight * 85 THEN "dense"
    ELSE IF estimatedHeight * 100 < usableHeight * 60 THEN "sparse"
    ELSE "normal"

\* every entry and every bullet counted
experienceHeightUncapped(experienceCount, totalBulletPoints) ==
    IF experienceCount > 0 THEN 35 + experienceCount * 60 + totalBulletPoints * 16 ELSE 0

\* lines 96-101: the experience section
experienceHeight(experienceCount, totalBulletPoints) ==
    LET limitedExperienceCount == Min(experienceCount, 6)
    IN  IF experienceCount > 0
        THEN 35 + limitedExperienceCount * 60
             + Min(totalBulletPoints, limitedExperienceCount * 4) * 16
        ELSE 0

\* lines 104-106: the education section
educationHeight(educationCount) ==
    IF educationCount > 0 THEN 35 + Min(educationCount, 4) * 45 ELSE 0

analyzeContent(data) ==
    LET exp == data.experience.items
        n(f) == Len(data[f].items)
        experienceCount == n("experience")
        educationCount == n("education")
        skillsCount == n("skills")
        achievementsCount == n("achivements")
        summaryLength == StrLen(data.summary.str)
        totalBulletPoints ==
            SumOver([i \in 1..Len(exp) |->
                        IF IsArray(exp[i].description) THEN Len(exp[i].description.items)
                        ELSE 1], Len(exp))
        on(b) == IF b THEN 1 ELSE 0
        sectionCount ==
            on(Truthy(data.summary)) + on(experienceCount > 0) + on(educationCount > 0)
            + on(skillsCount > 0) + on(n("softSkills") > 0) + on(n("languages") > 0)
            + on(n("certifications") > 0) + on(achievementsCount > 0)
            + on(n("volunteer") > 0) + on(n("interests") > 0)
        estimatedHeight ==
            100
            + (IF Truthy(data.photoUrl) THEN 40 ELSE 0)
            + (IF Truthy(data.summary) THEN 30 + CeilDiv(summaryLength, 80) * 16 ELSE 0)
            + experienceHeight(experienceCount, totalBulletPoints)
            + educationHeight(educationCount)
            + (IF skillsCount > 0 THEN 35 + CeilDiv(skillsCount, 6) * 25 ELSE 0)
            + (IF n("softSkills") > 0 THEN 35 + CeilDiv(n("softSkills"), 4) * 20 ELSE 0)
            + (IF n("languages") > 0 THEN 55 ELSE 0)
            + (IF n("certifications") > 0 THEN 35 + Min(n("certifications"), 4) * 25 ELSE 0)
            + (IF achievementsCount > 0 THEN 35 + Min(achievementsCount, 6) * 18 ELSE 0)
            + (IF n("volunteer") > 0 THEN 35 + Min(n("volunteer"), 3) * 50 ELSE 0)
            + (IF n("interests") > 0 THEN 55 ELSE 0)
        contentDensity == contentDensityOf(estimatedHeight)
    IN  [experienceCount |-> experienceCount,
         educationCount |-> educationCount,
         skillsCount |-> skillsCount,
         achievementsCount |-> achievementsCount,
         totalBulletPoints |-> totalBulletPoints,
         summaryLength |-> summaryLength,
         hasImage |-> Truthy(data.photoUrl),
         sectionCount |-> sectionCount,
         estimatedHeight |-> estimatedHeight,
         contentDensity |-> contentDensity]

TemplateTypes == {"minimal", "modern", "creative"}

\* lineHeight is in tenths, sidebarWidth 0 stands for a template without one
baseConfigs ==
    [minimal |->
        [nameFontSize |-> 32, titleFontSize |-> 18, sectionTitleFontSize |-> 16,
         bodyFontSize |-> 12, smallFontSize |-> 11, sectionSpacing |-> 24,
         itemSpacing |-> 14, lineHeight |-> 14, containerPadding |-> 32,
         sidebarWidth |-> 0, maxExperienceItems |-> 6, maxEducationItems |-> 4,
         maxBulletsPerExp |-> 4, maxSkillsDisplay |-> 20, maxAchievements |-> 8],
     modern |->
        [nameFontSize |-> 36, titleFontSize |-> 20, sectionTitleFontSize |-> 15,
         bodyFontSize |-> 13, smallFontSize |-> 11, sectionSpacing |-> 28,
         itemSpacing |-> 18, lineHeight |-> 15, containerPadding |-> 40,
         sidebarWidth |-> 220, maxExperienceItems |-> 5, maxEducationItems |-> 4,
         maxBulletsPerExp |-> 4, maxSkillsDisplay |-> 16, maxAchievements |-> 6],
     creative |->
        [nameFontSize |-> 34, titleFontSize |-> 18, sectionTitleFontSize |-> 15,
         bodyFontSize |-> 12, smallFontSize |-> 11, sectionSpacing |-> 22,
         itemSpacing |-> 16, lineHeight |-> 14, containerPadding |-> 36,
         sidebarWidth |-> 0, maxExperienceItems |-> 5, maxEducationItems |-> 4,
         maxBulletsPerExp |-> 3, maxSkillsDisplay |-> 18, maxAchievements |-> 6]]

\* modern has a sidebar; the other base configurations leave sidebarWidth out
HasSidebar(c, templateType) == templateType = "modern" /\ c.sidebarWidth # 0

\* the decrements without their floors
OverflowConfigNoFloors(c, templateType) ==
    [c EXCEPT !.nameFontSize = @ - 6,
              !.titleFontSize = @ - 3,
              !.sectionTitleFontSize = @ - 2,
              !.bodyFontSize = @ - 1,
              !.smallFontSize = @ - 1,
              !.sectionSpacing = @ - 8,
              !.itemSpacing = @ - 4,
              !.lineHeight = @ - 1,
              !.containerPadding = @ - 8,
              !.maxExperienceItems = @ - 2,
              !.maxBulletsPerExp = @ - 1,
              !.maxAchievements = @ - 2,
              !.compactMode = TRUE,
              !.scaleFactor = 95,
              !.sidebarWidth = IF HasSidebar(c, templateType) THEN @ - 30 ELSE @]

\* the content limits left as they were
OverflowConfigKeepsCaps(c, templateType) ==
    [c EXCEPT !.nameFontSize = Max(@ - 6, 26),
              !.titleFontSize = Max(@ - 3, 15),
              !.sectionTitleFontSize = Max(@ - 2, 13),
              !.bodyFontSize = Max(@ - 1, 11),
              !.smallFontSize = Max(@ - 1, 10),
              !.sectionSpacing = Max(@ - 8, 16),
              !.itemSpacing = Max(@ - 4, 10),
              !.lineHeight = Max(@ - 1, 13),
              !.containerPadding = Max(@ - 8, 24),
              !.compactMode = TRUE,
              !.scaleFactor = 95,
              !.sidebarWidth = IF HasSidebar(c, templateType) THEN Max(@ - 30, 180) ELSE @]

\* case 'overflow' (lines 218-243); lineHeight is in tenths, scaleFactor in
\* hundredths
OverflowConfig(c, templateType) ==
    [c EXCEPT !.nameFontSize = Max(@ - 6, 26),
              !.titleFontSize = Max(@ - 3, 15),
              !.sectionTitleFontSize = Max(@ - 2, 13),
              !.bodyFontSize = Max(@ - 1, 11),
              !.smallFontSize = Max(@ - 1, 10),
              !.sectionSpacing = Max(@ - 8, 16),
              !.itemSpacing = Max(@ - 4, 10),
              !.lineHeight = Max(@ - 1, 13),
              !.containerPadding = Max(@ - 8, 24),
              !.maxExperienceItems = Max(@ - 2, 3),
              !.maxBulletsPerExp = Max(@ - 1, 2),
              !.maxAchievements = Max(@ - 2, 4),
              !.compactMode = TRUE,
              !.scaleFactor = 95,
              !.sidebarWidth = IF HasSidebar(c, templateType) THEN Max(@ - 30, 180) ELSE @]

\* the decrements of the overflow case used for dense content
DenseConfigAsOverflow(c) ==
    [c EXCEPT !.nameFontSize = Max(@ - 6, 26),
              !.sectionSpacing = Max(@ - 8, 16),
              !.itemSpacing = Max(@ - 4, 10),
              !.maxBulletsPerExp = Max(@ - 1, 2),
              !.compactMode = TRUE,
              !.scaleFactor = 98]

\* the section spacing cut below the floor of the overflow case
DenseConfigDeeperSpacing(c) ==
    [c EXCEPT !.nameFontSize = Max(@ - 2, 28),
              !.sectionSpacing = Max(@ - 12, 12),
              !.itemSpacing = Max(@ - 2, 12),
              !.maxBulletsPerExp = Max(@ - 1, 3),
              !.compactMode = TRUE,
              !.scaleFactor = 98]

\* case 'dense' (lines 245-253)
DenseConfig(c) ==
    [c EXCEPT !.nameFontSize = Max(@ - 2, 28),
              !.sectionSpacing = Max(@ - 4, 18),
              !.itemSpacing = Max(@ - 2, 12),
              !.maxBulletsPerExp = Max(@ - 1, 3),
              !.compactMode = TRUE,
              !.scaleFactor = 98]

\* the sidebar left as it was
SparseConfigSameSidebar(c, templateType) ==
    [c EXCEPT !.nameFontSize = Min(@ + 4, 40),
              !.titleFontSize = Min(@ + 2, 22),
              !.sectionTitleFontSize = Min(@ + 1, 17),
              !.bodyFontSize = Min(@ + 1, 14),
              !.sectionSpacing = Min(@ + 6, 36),
              !.itemSpacing = Min(@ + 4, 22),
              !.lineHeight = Min(@ + 1, 16),
              !.compactMode = FALSE,
              !.scaleFactor = 102]

\* case 'sparse' (lines 255-273)
SparseConfig(c, templateType) ==
    [c EXCEPT !.nameFontSize = Min(@ + 4, 40),
              !.titleFontSize = Min(@ + 2, 22),
              !.sectionTitleFontSize = Min(@ + 1, 17),
              !.bodyFontSize = Min(@ + 1, 14),
              !.sectionSpacing = Min(@ + 6, 36),
              !.itemSpacing = Min(@ + 4, 22),
              !.lineHeight = Min(@ + 1, 16),
              !.compactMode = FALSE,
              !.scaleFactor = 102,
              !.sidebarWidth = IF HasSidebar(c, templateType) THEN Min(@ + 20, 250) ELSE @]

\* the switch of optimizeLayout on the density
AdjustForDensity(base, templateType, density) ==
    LET c == base @@ [templateType |-> templateType, compactMode |-> FALSE,
                      scaleFactor |-> 100]
    IN  CASE density = "overflow" -> OverflowConfig(c, templateType)
          [] density = "dense" -> DenseConfig(c)
          [] density = "sparse" -> SparseConfig(c, templateType)
          [] OTHER -> [c EXCEPT !.compactMode = FALSE, !.scaleFactor = 100]

\* the name two points smaller for a record with a photo
optimizeLayoutByPhoto(data, templateType) ==
    LET c == AdjustForDensity(baseConfigs[templateType], templateType,
                              analyzeContent(data).contentDensity)
    IN  IF Truthy(data.photoUrl) THEN [c EXCEPT !.nameFontSize = @ - 2] ELSE c

\* lines 153-284
optimizeLayout(data, templateType) ==
    AdjustForDensity(baseConfigs[templateType], templateType,
                     analyzeContent(data).contentDensity)

-----------------------------------------------------------------------------
(* lib/resumePreprocess.ts                                                 *)

MEDIUM_CHARS == 2200

EmDash == Rep("EMDASH", 1)
BulletMark == Rep("BULLET", 1)
Ellipsis == Rep("ELLIPSIS", 1)

\* a guard that tests for null alone
InputMissingNullOnly(in) == in.ty = "null"

\* !input
InputMissing(in) == in.ty \in {"null", "undefined"}

\* JSON.stringify writes an undefined array element as null and leaves out an
\* undefined property, which then reads as undefined again
JsonItem(v) == IF v.ty = "undefined" THEN Null ELSE v

JsonEntry(e) ==
    IF e.nul THEN e
    ELSE [e EXCEPT !.description =
            IF IsArray(@) THEN Arr([k \in 1..Len(@.items) |-> JsonItem(@.items[k])]) ELSE @]

\* JSON.parse(JSON.stringify(validatedData))
DeepCopy(v) ==
    [f \in DOMAIN v |->
        IF f \in ObjectLists THEN Arr([i \in 1..Len(v[f].items) |-> JsonEntry(v[f].items[i])])
        ELSE IF f \in ListFields THEN Arr([i \in 1..Len(v[f].items) |-> JsonItem(v[f].items[i])])
        ELSE v[f]]

\* `data` names the validated object itself: no copy is made
AliasRefs(refs) == refs

\* the copy is a new object whose arrays and entries are all new
DeepCopyRefs(refs) ==
    [obj |-> "copy",
     lists |-> [f \in ListFields |-> "fresh"],
     entries |-> [f \in ObjectLists |-> "fresh"]]

\* (s || "").trim() raises a TypeError on a truthy value that is no string
TrimThrows(v) == Truthy(v) /\ v.ty # "string"

\* (s || "").trim()
TrimOrEmpty(v) == Trim(OrEmpty(v).str)

\* (x.description || []).join(" ") raises on a truthy value that is no array
JoinThrows(d) == Truthy(d) /\ ~IsArray(d)

\* (x.description || []).join(" ").length
DescriptionJoinLen(d) ==
    IF Truthy(d) THEN JoinLen([k \in 1..Len(d.items) |-> StrLen(JoinItem(d.items[k]))]) ELSE 0

\* joinExpText(exp).length
joinExpText(exp) ==
    JoinLen([i \in 1..Len(exp) |->
                StrLen(Stringify(exp[i].a)) + 1 + StrLen(Stringify(exp[i].b)) + 1
                + StrLen(Stringify(exp[i].c)) + 1 + DescriptionJoinLen(exp[i].description)])

\* joinEduText(edu).length
joinEduText(edu) ==
    JoinLen([i \in 1..Len(edu) |->
                StrLen(Stringify(edu[i].a)) + 1 + StrLen(Stringify(edu[i].b)) + 1
                + StrLen(Stringify(edu[i].c))])

\* joinSimple(arr).length
joinSimple(arr) == JoinLen([i \in 1..Len(arr) |-> StrLen(JoinItem(arr[i]))])

\* line 76
certLen(certs) ==
    JoinLen([i \in 1..Len(certs) |->
                StrLen(Stringify(OrEmpty(certs[i].a))) + StrLen(Stringify(OrEmpty(certs[i].b)))])

\* line 77; `v?.role` reads undefined off a null entry
volunteerLen(vol) ==
    JoinLen([i \in 1..Len(vol) |->
                IF vol[i].nul THEN 2
                ELSE StrLen(Stringify(OrEmpty(vol[i].a))) + 1
                     + StrLen(Stringify(OrEmpty(vol[i].b))) + 1
                     + DescriptionJoinLen(vol[i].description)])

\* lines 66-92
\* the sum of lines 80-90
countedChars(data) ==
    StrLen(data.name.str) + StrLen(data.title.str) + StrLen(data.summary.str)
    + joinExpText(data.experience.items) + joinEduText(data.education.items)
    + joinSimple(data.skills.items) + joinSimple(data.softSkills.items)
    + joinSimple(data.achivements.items) + joinSimple(data.languages.items)
    + certLen(data.certifications.items) + volunteerLen(data.volunteer.items)

totalChars(data) == Max(countedChars(data), 50)

\* the first line of 66-77 that raises a TypeError, 0 when none does
CountThrows(data) ==
    LET exp == data.experience.items
        edu == data.education.items
        cer == data.certifications.items
        vol == data.volunteer.items
    IN  IF \E i \in 1..Len(exp) : exp[i].nul \/ JoinThrows(exp[i].description) THEN 35
        ELSE IF \E i \in 1..Len(edu) : edu[i].nul THEN 38
        ELSE IF \E i \in 1..Len(cer) : cer[i].nul THEN 76
        ELSE IF \E i \in 1..Len(vol) : ~vol[i].nul /\ JoinThrows(vol[i].description) THEN 77
        ELSE 0

\* the verdict of the analyzer taken over
compactModeFromDensity(data) ==
    analyzeContent(data).contentDensity \in {"overflow", "dense"}

\* the character count alone
compactModeCharsOnly(data) == totalChars(data) > MEDIUM_CHARS

\* line 101; the height is in quarter pixels
compactModeOf(data) ==
    totalChars(data) > MEDIUM_CHARS \/ ~(estimateContentHeight(data) <= 4 * 800)

\* the compact preset with one experience entry too many
CapsLooseCompact(compactMode) ==
    [maxExperienceItems |-> IF compactMode THEN 4 ELSE 6,
     maxBulletsPerExp |-> IF compactMode THEN 2 ELSE 4,
     maxEducationItems |-> IF compactMode THEN 2 ELSE 6,
     truncateCharPerLine |-> IF compactMode THEN 120 ELSE 220,
     softSkills |-> IF compactMode THEN 6 ELSE 12,
     skills |-> IF compactMode THEN 12 ELSE 30,
     languages |-> IF compactMode THEN 3 ELSE 8,
     achCap |-> IF compactMode THEN 6 ELSE 12,
     certifications |-> 20]

\* lines 144-147 and the caps of lines 183-190
Caps(compactMode) ==
    [maxExperienceItems |-> IF compactMode THEN 3 ELSE 6,
     maxBulletsPerExp |-> IF compactMode THEN 2 ELSE 4,
     maxEducationItems |-> IF compactMode THEN 2 ELSE 6,
     truncateCharPerLine |-> IF compactMode THEN 120 ELSE 220,
     softSkills |-> IF compactMode THEN 6 ELSE 12,
     skills |-> IF compactMode THEN 12 ELSE 30,
     languages |-> IF compactMode THEN 3 ELSE 8,
     achCap |-> IF compactMode THEN 6 ELSE 12,
     certifications |-> 20]

\* exp && (exp.role || exp.company), edu && (edu.degree || edu.school)
HasHeading(e) == ~e.nul /\ (Truthy(e.a) \/ Truthy(e.b))

NonEmpty(s) == s # <<>>

\* (e.description || []).slice(0, maxBulletsPerExp)
FirstBullets(e, maxBulletsPerExp) ==
    IF Truthy(e.description) THEN Take(e.description.items, maxBulletsPerExp) ELSE <<>>

\* lines 159-161: the achievement made of an experience entry
ExperienceAchievement(e, maxBulletsPerExp) ==
    LET title == Trim(Cat(Stringify(OrEmpty(e.a)),
                      Cat(Rep(" ", 1), Cat(EmDash, Cat(Rep(" ", 1), Stringify(OrEmpty(e.b)))))))
        first == FirstBullets(e, maxBulletsPerExp)
        bullets == [k \in 1..Len(first) |-> TrimOrEmpty(first[k])]
    IN  Join(SelectSeq(<<title>> \o bullets, NonEmpty),
             Cat(Rep(" ", 1), Cat(BulletMark, Rep(" ", 1))))

\* line 170: the achievement made of an education entry
EducationAchievement(ed) ==
    Trim(Cat(Stringify(OrEmpty(ed.a)),
         Cat(Rep(" ", 1), Cat(EmDash, Cat(Rep(" ", 1),
         Cat(Stringify(OrEmpty(ed.b)), Cat(Rep(" ", 1), TrimOrEmpty(ed.c))))))))

\* the cut made at limit instead of limit - 1
TruncateLineOneLonger(d, truncateCharPerLine) ==
    IF StrLen(d) > truncateCharPerLine
    THEN Cat(Trim(Slice0(d, truncateCharPerLine)), Ellipsis)
    ELSE d

\* line 178: d.length > limit ? d.slice(0, limit - 1).trim() + "..." : d
TruncateLine(d, truncateCharPerLine) ==
    IF StrLen(d) > truncateCharPerLine
    THEN Cat(Trim(Slice0(d, truncateCharPerLine - 1)), Ellipsis)
    ELSE d

\* lines 176-179: the bullets of a kept entry, capped, trimmed and truncated
KeptEntry(e, caps) ==
    LET first == IF IsArray(e.description)
                 THEN Take(e.description.items, caps.maxBulletsPerExp) ELSE <<>>
    IN  [e EXCEPT !.description =
            Arr([k \in 1..Len(first) |->
                    Str(TruncateLine(TrimOrEmpty(first[k]), caps.truncateCharPerLine))])]

\* line 182, before the slice
NormalCertification(c) ==
    Entry(Str(TrimOrEmpty(c.a)), Str(TrimOrEmpty(c.b)), Undefined, Undefined)

\* the duplicates removed before the strings are trimmed
uniqStringsUntrimmed(arr) ==
    LET once == Dedupe(arr)
    IN  SelectSeq([i \in 1..Len(once) |-> TrimOrEmpty(once[i])], NonEmpty)

\* uniqStrings
uniqStrings(arr) ==
    Dedupe(SelectSeq([i \in 1..Len(arr) |-> TrimOrEmpty(arr[i])], NonEmpty))

Strs(ss) == Arr([i \in 1..Len(ss) |-> Str(ss[i])])

\* the relocated entries forgotten
CombinedAchievementsExistingOnly(existing, extraAchievements, achCap) ==
    LET existingAch == [i \in 1..Len(existing) |-> TrimOrEmpty(existing[i])]
    IN  Take(SelectSeq(Dedupe(existingAch), NonEmpty), achCap)

\* the cut made before the duplicates are removed
CombinedAchievementsCutFirst(existing, extraAchievements, achCap) ==
    LET existingAch == [i \in 1..Len(existing) |-> TrimOrEmpty(existing[i])]
    IN  SelectSeq(Dedupe(Take(existingAch \o extraAchievements, achCap)), NonEmpty)

\* lines 188-191
CombinedAchievements(existing, extraAchievements, achCap) ==
    LET existingAch == [i \in 1..Len(existing) |-> TrimOrEmpty(existing[i])]
        combined == SelectSeq(Dedupe(existingAch \o extraAchievements), NonEmpty)
    IN  Take(combined, achCap)

\* the first line of 149-191 that raises a TypeError, 0 when none does
ProcessThrows(data, caps) ==
    LET exp == SelectSeq(data.experience.items, HasHeading)
        edu == SelectSeq(data.education.items, HasHeading)
        expExtras == Drop(exp, caps.maxExperienceItems)
        eduExtras == Drop(edu, caps.maxEducationItems)
        kept == Take(exp, caps.maxExperienceItems)
        cer == data.certifications.items
        bad(xs) == \E i \in 1..Len(xs) : TrimThrows(xs[i])
    IN  IF \E i \in 1..Len(expExtras) : bad(FirstBullets(expExtras[i], caps.maxBulletsPerExp))
        THEN 160
        ELSE IF \E i \in 1..Len(eduExtras) : TrimThrows(eduExtras[i].c) THEN 170
        ELSE IF \E i \in 1..Len(kept) :
                    IsArray(kept[i].description)
                    /\ bad(Take(kept[i].description.items, caps.maxBulletsPerExp))
        THEN 177
        ELSE IF \E i \in 1..Len(cer) : cer[i].nul \/ TrimThrows(cer[i].a) \/ TrimThrows(cer[i].b)
        THEN 182
        ELSE IF bad(data.softSkills.items) THEN 183
        ELSE IF bad(data.skills.items) THEN 184
        ELSE IF bad(data.languages.items) THEN 185
        ELSE IF bad(data.achivements.items) THEN 188
        ELSE 0

\* lines 149-191: the record after relocation, truncation and normalisation
Process(data, caps) ==
    LET exp == SelectSeq(data.experience.items, HasHeading)
        edu == SelectSeq(data.education.items, HasHeading)
        expExtras == Drop(exp, caps.maxExperienceItems)
        eduExtras == Drop(edu, caps.maxEducationItems)
        kept == Take(exp, caps.maxExperienceItems)
        cer == data.certifications.items
        extraAchievements ==
            SelectSeq([i \in 1..Len(expExtras) |->
                          ExperienceAchievement(expExtras[i], caps.maxBulletsPerExp)], NonEmpty)
            \o SelectSeq([i \in 1..Len(eduExtras) |-> EducationAchievement(eduExtras[i])],
                         NonEmpty)
    IN  [data EXCEPT
            !.experience = Arr([i \in 1..Len(kept) |-> KeptEntry(kept[i], caps)]),
            !.education = Arr(Take(edu, caps.maxEducationItems)),
            !.certifications =
                Arr(Take([i \in 1..Len(cer) |-> NormalCertification(cer[i])],
                         caps.certifications)),
            !.softSkills = Strs(Take(uniqStrings(data.softSkills.items), caps.softSkills)),
            !.skills = Strs(Take(uniqStrings(data.skills.items), caps.skills)),
            !.languages = Strs(Take(uniqStrings(data.languages.items), caps.languages)),
            !.achivements =
                Strs(CombinedAchievements(data.achivements.items, extraAchievements,
                                          caps.achCap))]

\* the arrays assigned in lines 152-191 are new ones; volunteer and interests
\* are left as they are, and filter and slice keep the education entries
ProcessRefs(refs) ==
    [refs EXCEPT
        !.lists = [f \in ListFields |->
                     IF f \in {"volunteer", "interests"} THEN @[f] ELSE "fresh"],
        !.entries = [f \in ObjectLists |->
                     IF f \in {"education", "volunteer"} THEN @[f] ELSE "fresh"]]

\* clamp
clamp(v, a, b) == Max(a, Min(b, v))

\* the total character counts at which floor(4 * 44 * globalScale) steps down
\* from 209 to 193 quarter pixels, for fewer than MIN_CHARS = 800 characters:
\* globalScale = clamp(pow(min(800 / totalChars, 1.3), 0.3) * 1.1, 1.0, 1.25)
UpScaleSteps ==
    <<619, 629, 640, 650, 661, 671, 683, 694, 705, 717, 729, 742, 754, 767, 781, 794>>

\* the base of 40 whatever the count
ScaledNameQuartersNoBoost(chars) ==
    IF chars <= 3600 THEN 160
    ELSE 112 + Cardinality({q \in 113..160 : q * q * chars <= 160 * 160 * 3600})

\* baseName * globalScale in quarter pixels, rounded down (lines 107-120):
\* 44 scaled up below 800 characters, 40 up to TARGET_CHARS = 3600, and
\* 40 * clamp(sqrt(3600 / totalChars), 0.7, 1) above
ScaledNameQuarters(chars) ==
    IF chars < 800
    THEN 193 + Cardinality({k \in 1..Len(UpScaleSteps) : chars <= UpScaleSteps[k]})
    ELSE IF chars <= 3600 THEN 160
    ELSE 112 + Cardinality({q \in 113..160 : q * q * chars <= 160 * 160 * 3600})

\* line 121: Math.round(baseName * globalScale - 0.25 per character of the
\* name beyond 24), clamped to 18..52; Math.round(x) is floor(x + 0.5)
nameFontSize(chars, nameLen) ==
    clamp((ScaledNameQuarters(chars) - Max(nameLen - 24, 0) + 2) \div 4, 18, 52)

\* lines 194-203; sectionFontSizes (lines 133-140) are not modelled
LayoutHints(compactMode, nameSize) ==
    LET caps == Caps(compactMode)
    IN  [compactMode |-> compactMode,
         nameFontSize |-> nameSize,
         maxExperienceItems |-> caps.maxExperienceItems,
         maxBulletsPerExp |-> caps.maxBulletsPerExp,
         maxEducationItems |-> caps.maxEducationItems,
         truncateCharPerLine |-> caps.truncateCharPerLine,
         sidebarWidthPx |-> 180]

\* the test without its last conjunct
AppearsEmptyHeaderOnly(rec) ==
    ~Truthy(rec.name) /\ ~Truthy(rec.title) /\ ~Truthy(rec.summary)

\* line 212
AppearsEmpty(rec) ==
    ~Truthy(rec.name) /\ ~Truthy(rec.title) /\ ~Truthy(rec.summary)
    /\ Len(rec.experience.items) = 0

NoValue == [ty |-> "none"]

Thrown(line, calls) ==
    [outcome |-> "threw", at |-> line, calls |-> calls, warned |-> FALSE,
     rec |-> NoValue, layout |-> NoValue, layoutConfig |-> NoValue,
     contentMetrics |-> NoValue, refs |-> NoValue]

\* preprocessResume(in): what the call does, as a record
\*   outcome  "returned" or "threw"          at     the line that threw
\*   calls    the helpers called, in order   warned console.warn was called
\*   rec      the returned record, with _layout, _layoutConfig and
\*            _contentMetrics beside it     refs   which parts are the caller's
preprocessResume(in) ==
    IF InputMissing(in) THEN Thrown(51, <<>>)
    ELSE
    LET data == DeepCopy(validateResumeData(in))
        refs == DeepCopyRefs(ValidatedRefs(in))
        compactMode == compactModeOf(data)
        caps == Caps(compactMode)
        rec == Process(data, caps)
    IN  IF EstimateThrows(data)
        THEN Thrown(84, <<"validateResumeData", "estimateContentHeight">>)
        ELSE IF AnalyzeThrows(data)
        THEN Thrown(63, <<"validateResumeData", "estimateContentHeight", "analyzeContent">>)
        ELSE IF CountThrows(data) # 0
        THEN Thrown(CountThrows(data),
                    <<"validateResumeData", "estimateContentHeight", "analyzeContent",
                      "optimizeLayout">>)
        ELSE IF ProcessThrows(data, caps) # 0
        THEN Thrown(ProcessThrows(data, caps),
                    <<"validateResumeData", "estimateContentHeight", "analyzeContent",
                      "optimizeLayout">>)
        ELSE [outcome |-> "returned", at |-> 0,
              calls |-> <<"validateResumeData", "estimateContentHeight", "analyzeContent",
                          "optimizeLayout">>,
              warned |-> AppearsEmpty(rec),
              rec |-> rec,
              layout |-> LayoutHints(compactMode,
                                     nameFontSize(totalChars(data), StrLen(data.name.str))),
              layoutConfig |-> optimizeLayout(data, "modern"),
              contentMetrics |-> analyzeContent(data),
              refs |-> ProcessRefs(refs)]

-----------------------------------------------------------------------------
(* The inputs preprocessResume is called with                              *)

Plain ==
    [nameLen |-> 1, photo |-> FALSE, summaryLen |-> 0, nExp |-> 0, nb |-> 1,
     kind |-> "short", nEdu |-> 0, nCert |-> 0, nAch |-> 0, nVol |-> 0, nSimple |-> 0,
     nInt |-> 0, mal |-> "none", padTo |-> 0]

\* long lists: relocation into the achievements
RelocationParams ==
    {[Plain EXCEPT !.nExp = e, !.nEdu = d, !.nAch = a] :
        e \in 0..MaxExp, d \in 0..MaxEdu, a \in 0..MaxAch}

\* bullets of every kind and number
BulletParams ==
    {[Plain EXCEPT !.nExp = e, !.nb = b, !.kind = k] :
        e \in 0..MaxExp, b \in 0..MaxBullets, k \in BulletKinds}

\* lists of strings and certifications, with few and with many characters
SimpleParams ==
    {[Plain EXCEPT !.nSimple = s, !.padTo = t] :
        s \in 0..MaxSimple, t \in {0, MEDIUM_CHARS + 1}}
    \cup {[Plain EXCEPT !.nCert = c, !.padTo = t] :
        c \in 0..MaxCert, t \in {0, MEDIUM_CHARS + 1}}

\* one malformed field at a time, in a short and in a long record
MalformedParams ==
    {[Plain EXCEPT !.mal = m, !.nExp = n[1], !.nEdu = n[2], !.nb = 2, !.nCert = 2,
                   !.nAch = 2, !.nVol = 2, !.nSimple = 4] :
        m \in Malformations, n \in {<<2, 2>>, <<MaxExp, MaxEdu>>}}

\* records with MEDIUM_CHARS characters or a few less
PaddedParams ==
    {[Plain EXCEPT !.nExp = e, !.nEdu = d, !.nAch = a, !.nb = b,
                   !.padTo = MEDIUM_CHARS - s] :
        e \in 0..MaxExp, d \in 0..MaxEdu, a \in {0, 1}, b \in {0, 2}, s \in 0..MaxSlack}

\* the header and the lists nothing is done to
HeaderParams ==
    {[Plain EXCEPT !.nameLen = n, !.summaryLen = s, !.photo = ph, !.nVol = v, !.nInt = i,
                   !.nExp = e] :
        n \in {0, 1}, s \in {0, 100}, ph \in BOOLEAN, v \in 0..MaxOther, i \in 0..MaxOther,
        e \in {0, 1}}

\* names short and long, in records of few and of many characters
NameParams ==
    {[Plain EXCEPT !.nameLen = n, !.padTo = t] :
        n \in {1, 24, 25, 60},
        t \in {0, 619, 620, 799, 800, MEDIUM_CHARS, 3600, 3700, 6400}}

\* a few entries of every list at once, in few characters
MixedParams ==
    {[Plain EXCEPT !.nExp = e, !.nb = b, !.nEdu = d, !.nSimple = n] :
        e \in {2, 3}, b \in {3, 4}, d \in {2, 4}, n \in {12, MaxSimple}}

Params ==
    RelocationParams \cup BulletParams \cup SimpleParams \cup MalformedParams
    \cup PaddedParams \cup HeaderParams \cup NameParams \cup MixedParams

\* the input of parameters p; its title fills it up to p.padTo characters
MkInput(p) ==
    LET base == BaseInput(p)
        have == countedChars(DeepCopy(validateResumeData(base)))
    IN  IF p.padTo = 0 THEN base
        ELSE [base EXCEPT !.title = Str(Rep("t", Max(0, p.padTo - have)))]

\* an object with nothing in it: every field undefined, or every string empty
\* and every list empty
EmptyInputs ==
    LET bare == [BaseInput([Plain EXCEPT !.nameLen = 0, !.mal = "missingLists"])
                    EXCEPT !.contact = [phone |-> Undefined, email |-> Undefined,
                                        address |-> Undefined, linkedin |-> Undefined]]
        blank == [f \in DOMAIN bare |->
                    CASE f = "ty" -> "object"
                      [] f = "contact" -> [phone |-> Str(<<>>), email |-> Str(<<>>),
                                           address |-> Str(<<>>), linkedin |-> Str(<<>>)]
                      [] f \in ListFields -> Arr(<<>>)
                      [] OTHER -> Str(<<>>)]
    IN  {bare, blank}

\* records whose text is in the interests, the contact and the photo URL
UncountedInputs ==
    {[BaseInput(Plain) EXCEPT !.interests = Arr(<<Str(Rep("i", MEDIUM_CHARS + 100))>>)],
     [BaseInput(Plain) EXCEPT !.contact.address = Str(Rep("a", MEDIUM_CHARS + 100))],
     [BaseInput(Plain) EXCEPT !.photoUrl = Str(Rep("u", MEDIUM_CHARS + 100))]}

\* objects that hold a name and nothing else
NameOnlyInputs ==
    {[e EXCEPT !.name = Str(Rep("N", n))] : e \in EmptyInputs, n \in {1, 24, 25}}

Inputs ==
    {NullInput, UndefinedInput} \cup EmptyInputs \cup NameOnlyInputs
    \cup UncountedInputs \cup {MkInput(p) : p \in Params}

-----------------------------------------------------------------------------
(* lib/layoutOptimizer.ts: GeminiModelSelector                             *)

\* lines 392-428
GEMINI_MODELS ==
    << [name |-> "gemini-2.5-pro", rpm |-> 5, tpm |-> 250000, rpd |-> 100, priority |-> 5],
       [name |-> "gemini-2.5-flash", rpm |-> 10, tpm |-> 250000, rpd |-> 250, priority |-> 4],
       [name |-> "gemini-2.0-flash", rpm |-> 15, tpm |-> 1000000, rpd |-> 200, priority |-> 3],
       [name |-> "gemini-2.5-flash-lite", rpm |-> 15, tpm |-> 250000, rpd |-> 1000,
        priority |-> 2],
       [name |-> "gemini-2.0-flash-lite", rpm |-> 30, tpm |-> 1000000, rpd |-> 200,
        priority |-> 1] >>

ModelSet == {GEMINI_MODELS[i] : i \in 1..Len(GEMINI_MODELS)}

ModelNames == {m.name : m \in ModelSet}

\* this.models.get(name), for a known name
models(name) == CHOOSE m \in ModelSet : m.name = name

\* lines 452-454: the names by descending priority
fallbackChain ==
    [i \in 1..Len(GEMINI_MODELS) |->
        (CHOOSE m \in ModelSet :
            Cardinality({o \in ModelSet : o.priority > m.priority}) = i - 1).name]

\* no model: the null a selection returns
NoModel == "null"

MinutesPerDay == 1440

\* lines 457-463, with the clock in minutes
getCurrentMinute(clock) == clock

getCurrentDay(clock) == clock \div MinutesPerDay

\* lines 442-448: the counters of a model when the selector is constructed
FreshUsage(clock) ==
    [requestsThisMinute |-> 0, requestsToday |-> 0, tokensThisMinute |-> 0,
     lastResetMinute |-> getCurrentMinute(clock), lastResetDay |-> getCurrentDay(clock)]

\* lines 465-484: the table after resetCountersIfNeeded(modelName)
resetCountersIfNeeded(u, modelName, clock) ==
    IF modelName \notin DOMAIN u THEN u
    ELSE
    LET old == u[modelName]
        minuteOver == getCurrentMinute(clock) > old.lastResetMinute
        dayOver == getCurrentDay(clock) > old.lastResetDay
    IN  [u EXCEPT ![modelName] =
            [requestsThisMinute |-> IF minuteOver THEN 0 ELSE old.requestsThisMinute,
             tokensThisMinute |-> IF minuteOver THEN 0 ELSE old.tokensThisMinute,
             lastResetMinute |-> IF minuteOver THEN getCurrentMinute(clock)
                                 ELSE old.lastResetMinute,
             requestsToday |-> IF dayOver THEN 0 ELSE old.requestsToday,
             lastResetDay |-> IF dayOver THEN getCurrentDay(clock) ELSE old.lastResetDay]]

\* the look itself counted as a request of the minute
isModelAvailableCounting(u, modelName, estimatedTokens, clock) ==
    IF modelName \notin DOMAIN u THEN [table |-> u, result |-> FALSE]
    ELSE
    LET after == resetCountersIfNeeded(u, modelName, clock)
        counted == [after EXCEPT ![modelName].requestsThisMinute = @ + 1]
        model == models(modelName)
    IN  [table |-> counted,
         result |-> /\ after[modelName].requestsThisMinute < model.rpm
                    /\ after[modelName].tokensThisMinute + estimatedTokens <= model.tpm
                    /\ after[modelName].requestsToday < model.rpd]

\* lines 486-500: the table isModelAvailable leaves and the value it returns
isModelAvailable(u, modelName, estimatedTokens, clock) ==
    IF modelName \notin DOMAIN u THEN [table |-> u, result |-> FALSE]
    ELSE
    LET after == resetCountersIfNeeded(u, modelName, clock)
        model == models(modelName)
        withinRPM == after[modelName].requestsThisMinute < model.rpm
        withinTPM == after[modelName].tokensThisMinute + estimatedTokens <= model.tpm
        withinRPD == after[modelName].requestsToday < model.rpd
    IN  [table |-> after, result |-> withinRPM /\ withinTPM /\ withinRPD]

\* the loops of lines 511-515, 519-523 and 624-628: the first name of the
\* chain that is available, the names before it having been looked at
RECURSIVE FirstAvailable(_, _, _, _)
FirstAvailable(u, chain, estimatedTokens, clock) ==
    IF chain = <<>> THEN [table |-> u, result |-> NoModel]
    ELSE LET a == isModelAvailable(u, Head(chain), estimatedTokens, clock)
         IN  IF a.result THEN [table |-> a.table, result |-> Head(chain)]
             ELSE FirstAvailable(a.table, Tail(chain), estimatedTokens, clock)

Reverse(s) == [i \in 1..Len(s) |-> s[Len(s) + 1 - i]]

\* the chain from its head whatever the preference
selectModelHighFirst(u, estimatedTokens, preferHighPerformance, clock) ==
    FirstAvailable(u, fallbackChain, estimatedTokens, clock)

\* lines 508-527
selectModel(u, estimatedTokens, preferHighPerformance, clock) ==
    IF preferHighPerformance
    THEN FirstAvailable(u, fallbackChain, estimatedTokens, clock)
    ELSE FirstAvailable(u, Reverse(fallbackChain), estimatedTokens, clock)

\* the increments without the reset before them
recordUsageNoReset(u, modelName, actualTokens, clock) ==
    IF modelName \notin DOMAIN u THEN u
    ELSE [u EXCEPT ![modelName].requestsThisMinute = @ + 1,
                   ![modelName].requestsToday = @ + 1,
                   ![modelName].tokensThisMinute = @ + actualTokens]

\* lines 534-543: the table after recordUsage(modelName, actualTokens)
recordUsage(u, modelName, actualTokens, clock) ==
    IF modelName \notin DOMAIN u THEN u
    ELSE
    LET after == resetCountersIfNeeded(u, modelName, clock)
    IN  [after EXCEPT ![modelName].requestsThisMinute = @ + 1,
                      ![modelName].requestsToday = @ + 1,
                      ![modelName].tokensThisMinute = @ + actualTokens]

UseCases == {"resume-generation", "simple-task", "complex-analysis"}

\* lines 604-608
tokenEstimates(useCase) ==
    CASE useCase = "resume-generation" -> 2000
      [] useCase = "simple-task" -> 500
      [] useCase = "complex-analysis" -> 5000

\* every use case served from the whole chain
selectForUseCaseWholeChain(u, useCase, estimatedTokens, clock) ==
    LET tokens == IF estimatedTokens # 0 THEN estimatedTokens ELSE tokenEstimates(useCase)
    IN  selectModel(u, tokens, useCase # "simple-task", clock)

\* lines 603-634; estimatedTokens 0 stands for the argument left out
selectForUseCase(u, useCase, estimatedTokens, clock) ==
    LET tokens == IF estimatedTokens # 0 THEN estimatedTokens ELSE tokenEstimates(useCase)
    IN  CASE useCase = "resume-generation" -> selectModel(u, tokens, TRUE, clock)
          [] useCase = "simple-task" -> selectModel(u, tokens, FALSE, clock)
          [] useCase = "complex-analysis" ->
                FirstAvailable(u, <<"gemini-2.5-pro", "gemini-2.5-flash", "gemini-2.0-flash">>,
                               tokens, clock)

\* indexOf: the place of a name in a chain, 0 for -1 + 1 when it is not there
IndexOf(chain, name) ==
    IF \E i \in 1..Len(chain) : chain[i] = name
    THEN CHOOSE i \in 1..Len(chain) :
            chain[i] = name /\ \A j \in 1..(i - 1) : chain[j] # name
    ELSE 0

\* the chain gone through from currentModel itself
getNextBestModelFromCurrent(u, currentModel, estimatedTokens, clock) ==
    LET currentIndex == IndexOf(fallbackChain, currentModel)
    IN  FirstAvailable(u, SubSeq(fallbackChain, Max(currentIndex, 1), Len(fallbackChain)),
                       estimatedTokens, clock)

\* lines 586-598: the chain after currentModel is gone through; a name that
\* is not in the chain has index -1, and the whole chain is gone through
getNextBestModel(u, currentModel, estimatedTokens, clock) ==
    LET currentIndex == IndexOf(fallbackChain, currentModel)
    IN  FirstAvailable(u, SubSeq(fallbackChain, currentIndex + 1, Len(fallbackChain)),
                       estimatedTokens, clock)

\* `${a}/${b}`
Ratio(a, b) == <<a, "/", b>>

RECURSIVE ResetAll(_, _, _)
ResetAll(u, names, clock) ==
    IF names = <<>> THEN u
    ELSE ResetAll(resetCountersIfNeeded(u, Head(names), clock), Tail(names), clock)

\* lines 548-579: the table getUsageStats leaves (every model reset) and the
\* statistics it returns, read off the counters after the reset
getUsageStats(u, clock) ==
    LET names == [i \in 1..Len(GEMINI_MODELS) |-> GEMINI_MODELS[i].name]
        after == ResetAll(u, names, clock)
    IN  [table |-> after,
         result |->
            [n \in ModelNames |->
                [model |-> [rpm |-> models(n).rpm, tpm |-> models(n).tpm,
                            rpd |-> models(n).rpd, priority |-> models(n).priority],
                 current |->
                    [requestsThisMinute |-> after[n].requestsThisMinute,
                     requestsToday |-> after[n].requestsToday,
                     tokensThisMinute |-> after[n].tokensThisMinute,
                     available |-> isModelAvailable(after, n, 1000, clock).result],
                 utilization |->
                    [rpmUsage |-> Ratio(after[n].requestsThisMinute, models(n).rpm),
                     rpdUsage |-> Ratio(after[n].requestsToday, models(n).rpd),
                     tpmUsage |-> Ratio(after[n].tokensThisMinute, models(n).tpm)]]]]

-----------------------------------------------------------------------------
(* The calls                                                               *)

\* the optimizer is not called on its own
LayoutOff ==
    /\ layoutData = NoValue
    /\ layoutTemplate = "modern"
    /\ layoutPc = "off"
    /\ layoutMetrics = NoValue
    /\ layoutResult = NoValue

\* the selector is not in use
SelectorOff ==
    /\ usage = NoValue
    /\ now = 0
    /\ born = 0
    /\ inFlight = NoValue
    /\ started = 0
    /\ recorded = NoValue
    /\ lastCall = NoValue

\* useState<ProcessedResume | null>(null): nothing has been handed on
Unset == NullInput

\* no component is mounted
CallersOff ==
    /\ page = "off"
    /\ raw = Unset
    /\ handed = Unset
    /\ shownError = {}
    /\ step = "off"
    /\ loading = FALSE
    /\ loadingProgress = 0
    /\ intervals = {}
    /\ timeoutArmed = FALSE
    /\ runs = 0

Init ==
    /\ given \in Inputs
    /\ input = given
    /\ pc = "idle"
    /\ out1 = NoValue
    /\ out2 = NoValue
    /\ LayoutOff
    /\ SelectorOff
    /\ CallersOff

\* what the caller's object holds after the call: the assignments of lines
\* 152-209 go to the object `data` names
InputAfter(in, r) ==
    IF r.outcome = "returned" /\ r.refs.obj = "input" THEN r.rec ELSE in

\* const processed = preprocessResume(input)
Preprocess ==
    /\ pc = "idle"
    /\ out1' = preprocessResume(input)
    /\ input' = InputAfter(input, out1')
    /\ pc' = "done"
    /\ UNCHANGED <<given, out2, layoutVars, selectorVars, callerVars>>

\* the returned record is preprocessed again (resumePreview.tsx reprocesses
\* the record it holds on every edit)
Reprocess ==
    /\ pc = "done"
    /\ out1.outcome = "returned"
    /\ out2' = preprocessResume(out1.rec)
    /\ pc' = "twice"
    /\ UNCHANGED <<given, input, out1, layoutVars, selectorVars, callerVars>>

Next == Preprocess \/ Reprocess

Spec == Init /\ [][Next]_vars

-----------------------------------------------------------------------------
(* The optimizer called on its own, for each template kind                 *)

\* records of every density: lists of every length, with and without the
\* sections that count once
LayoutParams ==
    {[Plain EXCEPT !.nExp = e, !.nb = b, !.nEdu = d, !.nSimple = n, !.nCert = o[1],
                   !.nAch = o[2], !.nVol = o[3], !.nInt = i] :
        e \in 0..MaxExp, b \in 0..MaxBullets, d \in {0, 1, 2, 4, 5}, n \in {0, 12, 31},
        o \in {<<0, 0, 0>>, <<2, 0, 0>>, <<0, 0, 2>>, <<2, 2, 2>>}, i \in {0, 1}}
    \cup {[Plain EXCEPT !.photo = ph, !.summaryLen = s, !.nExp = e, !.nb = 2] :
        ph \in BOOLEAN, s \in {0, 80, 81, 100}, e \in 0..MaxExp}

LayoutInputs == EmptyInputs \cup {BaseInput(p) : p \in LayoutParams}

\* nothing is preprocessed
PreprocessOff ==
    /\ given = NoValue
    /\ input = NoValue
    /\ pc = "off"
    /\ out1 = NoValue
    /\ out2 = NoValue

LayoutInit ==
    /\ layoutData \in LayoutInputs
    /\ layoutTemplate \in TemplateTypes
    /\ layoutPc = "idle"
    /\ layoutMetrics = NoValue
    /\ layoutResult = NoValue
    /\ PreprocessOff
    /\ SelectorOff
    /\ CallersOff

\* const contentMetrics = analyzeContent(data)
Analyze ==
    /\ layoutPc = "idle"
    /\ layoutMetrics' = analyzeContent(layoutData)
    /\ layoutPc' = "analyzed"
    /\ UNCHANGED <<layoutData, layoutTemplate, layoutResult, preprocessVars, selectorVars, callerVars>>

\* const layoutConfig = optimizeLayout(data, templateType)
Optimize ==
    /\ layoutPc = "analyzed"
    /\ layoutResult' = optimizeLayout(layoutData, layoutTemplate)
    /\ layoutPc' = "optimized"
    /\ UNCHANGED <<layoutData, layoutTemplate, layoutMetrics, preprocessVars, selectorVars, callerVars>>

LayoutNext == Analyze \/ Optimize

SpecLayout == LayoutInit /\ [][LayoutNext]_vars

-----------------------------------------------------------------------------
(* The one GeminiModelSelector of the process, shared by the requests in   *)
(* flight: a request calls a selection, awaits the API call, then records  *)

\* the selector is constructed two minutes before a midnight
StartMinute == MinutesPerDay - 2

\* the tokens a request turns out to have used
ActualTokens == {1000, 250000}

SelectorInit ==
    /\ born = StartMinute
    /\ now = born
    /\ usage = [n \in ModelNames |-> FreshUsage(now)]
    /\ inFlight = [n \in ModelNames |-> 0]
    /\ started = 0
    /\ recorded = NoValue
    /\ lastCall = NoValue
    /\ PreprocessOff
    /\ LayoutOff
    /\ CallersOff

\* the request holds the model it was given until it records
Given(result) ==
    IF result = NoModel THEN inFlight ELSE [inFlight EXCEPT ![result] = @ + 1]

\* a request calls selectModel(estimatedTokens, preferHighPerformance)
SelectModel ==
    /\ started < MaxRequests
    /\ \E preferHighPerformance \in BOOLEAN :
          LET r == selectModel(usage, 1000, preferHighPerformance, now)
          IN  /\ usage' = r.table
              /\ inFlight' = Given(r.result)
    /\ started' = started + 1
    /\ UNCHANGED <<now, born, recorded, lastCall, preprocessVars, layoutVars, callerVars>>

\* a request calls selectForUseCase(useCase)
SelectForUseCase ==
    /\ started < MaxRequests
    /\ \E useCase \in UseCases :
          LET r == selectForUseCase(usage, useCase, 0, now)
          IN  /\ usage' = r.table
              /\ inFlight' = Given(r.result)
    /\ started' = started + 1
    /\ UNCHANGED <<now, born, recorded, lastCall, preprocessVars, layoutVars, callerVars>>

\* a request in flight calls recordUsage(modelName, actualTokens), once, for
\* the model it was given
RecordUsage ==
    /\ \E modelName \in ModelNames, actualTokens \in ActualTokens :
          /\ inFlight[modelName] > 0
          /\ usage' = recordUsage(usage, modelName, actualTokens, now)
          /\ inFlight' = [inFlight EXCEPT ![modelName] = @ - 1]
    /\ UNCHANGED <<now, born, started, recorded, lastCall, preprocessVars, layoutVars, callerVars>>

\* a minute passes
Tick ==
    /\ now < born + MaxTicks
    /\ now' = now + 1
    /\ UNCHANGED <<usage, born, inFlight, started, recorded, lastCall, preprocessVars, layoutVars, callerVars>>

SelectorNext == SelectModel \/ SelectForUseCase \/ RecordUsage \/ Tick

SpecSelector == SelectorInit /\ [][SelectorNext]_vars

-----------------------------------------------------------------------------
(* The methods of the selector called one after the other, in any order    *)
(* and with any arguments, while the clock advances                        *)

\* a name the selector does not know
UnknownModel == "gemini-unknown"

CalledNames == ModelNames \cup {UnknownModel}

\* tokens of a small request and of one that fills any model's minute
CalledTokens == {1000, 1000000}

\* the selector is constructed two minutes or one minute before a midnight
StartMinutes == {StartMinute, StartMinute + 1}

Minutes == StartMinute..(StartMinute + 1 + MaxTicks)

NothingRecorded == [n \in CalledNames |-> [t \in Minutes |-> [calls |-> 0, tokens |-> 0]]]

Called(op, args, result) == [op |-> op, args |-> args, result |-> result]

RECURSIVE TotalOver(_, _)
\* the sum of f over the set S
TotalOver(f, S) ==
    IF S = {} THEN 0
    ELSE LET x == CHOOSE y \in S : TRUE IN f[x] + TotalOver(f, S \ {x})

\* recordUsage calls made so far
RecordedCalls ==
    LET cells == CalledNames \X Minutes
    IN  TotalOver([c \in cells |-> recorded[c[1]][c[2]].calls], cells)

CallsInit ==
    /\ born \in StartMinutes
    /\ now = born
    /\ usage = [n \in ModelNames |-> FreshUsage(now)]
    /\ recorded = NothingRecorded
    /\ lastCall = Called("new", <<>>, NoValue)
    /\ inFlight = NoValue
    /\ started = 0
    /\ PreprocessOff
    /\ LayoutOff
    /\ CallersOff

\* selectModel(estimatedTokens, preferHighPerformance)
CallSelectModel ==
    /\ \E estimatedTokens \in CalledTokens, preferHighPerformance \in BOOLEAN :
          LET r == selectModel(usage, estimatedTokens, preferHighPerformance, now)
          IN  /\ usage' = r.table
              /\ lastCall' = Called("selectModel",
                                    <<estimatedTokens, preferHighPerformance>>, r.result)
    /\ UNCHANGED <<now, born, recorded, inFlight, started, preprocessVars, layoutVars, callerVars>>

\* selectForUseCase(useCase, estimatedTokens), 0 for the estimate left out
CallSelectForUseCase ==
    /\ \E useCase \in UseCases, estimatedTokens \in {0, 1000000} :
          LET r == selectForUseCase(usage, useCase, estimatedTokens, now)
          IN  /\ usage' = r.table
              /\ lastCall' = Called("selectForUseCase", <<useCase, estimatedTokens>>,
                                    r.result)
    /\ UNCHANGED <<now, born, recorded, inFlight, started, preprocessVars, layoutVars, callerVars>>

\* getNextBestModel(currentModel), the estimate left at its default of 1000
CallGetNextBestModel ==
    /\ \E currentModel \in CalledNames :
          LET r == getNextBestModel(usage, currentModel, 1000, now)
          IN  /\ usage' = r.table
              /\ lastCall' = Called("getNextBestModel", <<currentModel>>, r.result)
    /\ UNCHANGED <<now, born, recorded, inFlight, started, preprocessVars, layoutVars, callerVars>>

\* getUsageStats()
CallGetUsageStats ==
    /\ LET r == getUsageStats(usage, now)
       IN  /\ usage' = r.table
           /\ lastCall' = Called("getUsageStats", <<>>, r.result)
    /\ UNCHANGED <<now, born, recorded, inFlight, started, preprocessVars, layoutVars, callerVars>>

\* recordUsage(modelName, actualTokens)
CallRecordUsage ==
    /\ RecordedCalls < MaxRecords
    /\ \E modelName \in CalledNames, actualTokens \in CalledTokens :
          /\ usage' = recordUsage(usage, modelName, actualTokens, now)
          /\ recorded' = [recorded EXCEPT ![modelName][now] =
                            [calls |-> @.calls + 1, tokens |-> @.tokens + actualTokens]]
          /\ lastCall' = Called("recordUsage", <<modelName, actualTokens>>, NoValue)
    /\ UNCHANGED <<now, born, inFlight, started, preprocessVars, layoutVars, callerVars>>

\* a minute passes
Advance ==
    /\ now < born + MaxTicks
    /\ now' = now + 1
    /\ lastCall' = Called("tick", <<>>, NoValue)
    /\ UNCHANGED <<usage, born, recorded, inFlight, started, preprocessVars, layoutVars, callerVars>>

CallsNext ==
    \/ CallSelectModel \/ CallSelectForUseCase \/ CallGetNextBestModel
    \/ CallGetUsageStats \/ CallRecordUsage \/ Advance

SpecSelectorCalls == CallsInit /\ [][CallsNext]_vars

-----------------------------------------------------------------------------
(* Properties                                                              *)

\* the entries of a list field of an input, none when it is no array
Items(in, f) == IF in.ty = "object" /\ IsArray(in[f]) THEN in[f].items ELSE <<>>

\* the strings of a list of strings of a returned record
Texts(rec, f) == [i \in 1..Len(rec[f].items) |-> rec[f].items[i].str]

\* the entries of a list of objects that have one of their two heading fields
Headed(in, f) == SelectSeq(Items(in, f), HasHeading)

NoDuplicates(xs) == \A i, j \in 1..Len(xs) : i # j => xs[i] # xs[j]

\* P holds of every call made so far
OfEveryCall(P(_, _)) ==
    /\ pc # "idle" => P(given, out1)
    /\ pc = "twice" => P(out1.rec, out2)

\* C1: preprocessResume never throws for a non-null input object, whatever
\* its optional fields hold: a record is returned.
C1_NeverThrowsOnObject ==
    LET P(in, r) == ~InputMissing(in) => r.outcome = "returned"
    IN  OfEveryCall(P)

\* C2: a null or undefined input makes preprocessResume throw at its first
\* statement, before any helper is called and without a warning, and no
\* record is returned; that throw happens for no other input.
C2_MissingInputThrows ==
    LET P(in, r) ==
            /\ in.ty \in {"null", "undefined"} =>
                  /\ r.outcome = "threw"
                  /\ r.at = 51
                  /\ r.calls = <<>>
                  /\ ~r.warned
                  /\ r.rec = NoValue
            /\ r.at = 51 => in.ty \in {"null", "undefined"}
    IN  OfEveryCall(P)

C2_Witness ==
    /\ pc = "done"
    /\ given.ty = "undefined"
    /\ out1.outcome = "threw"

\* C3: preprocessResume leaves its input as it was, and the returned record
\* shares no array and no entry object with the input.
C3_InputUntouched ==
    /\ input = given
    /\ LET P(in, r) ==
               r.outcome = "returned" =>
                  /\ r.refs.obj # "input"
                  /\ \A f \in ListFields : r.refs.lists[f] = "fresh"
                  /\ \A f \in ObjectLists : r.refs.entries[f] = "fresh"
       IN  OfEveryCall(P)

\* a call that relocated experience entries and left volunteer entries alone
C3_Witness ==
    /\ pc = "done"
    /\ out1.outcome = "returned"
    /\ Len(out1.rec.experience.items) < Len(given.experience.items)
    /\ Len(out1.rec.achivements.items) > Len(given.achivements.items)
    /\ Len(given.volunteer.items) > 0
    /\ input = given

\* the heading fields of a kept entry are those of the entry it was
SameHeading(e, f) == e.a = f.a /\ e.b = f.b /\ e.c = f.c

\* some achievement of the record contains the trimmed role and company of e
Relocated(rec, e) ==
    \E j \in 1..Len(rec.achivements.items) :
        /\ Includes(rec.achivements.items[j].str, TrimOrEmpty(e.a))
        /\ Includes(rec.achivements.items[j].str, TrimOrEmpty(e.b))

\* the distinct pre-existing achievements, trimmed, without the empty ones
ExistingAchievements(in) ==
    {TrimOrEmpty(Items(in, "achivements")[i]) : i \in 1..Len(Items(in, "achivements"))}
    \ {<<>>}

\* the first cap entries that have a role or a company are kept, in order
KeepsFirst(in, r) ==
    LET exp == Headed(in, "experience")
        kept == r.rec.experience.items
    IN  /\ Len(kept) = Min(Len(exp), r.layout.maxExperienceItems)
        /\ \A i \in 1..Len(kept) : SameHeading(kept[i], exp[i])

\* C4 as claimed: with more experience entries than the cap, the first cap
\* entries are kept in order and every excess entry appears in the returned
\* achievements as one string with its role and company.
C4_EveryExcessRelocated ==
    LET P(in, r) ==
            LET exp == Headed(in, "experience")
                cap == r.layout.maxExperienceItems
            IN  (r.outcome = "returned" /\ Len(exp) > cap) =>
                    /\ KeepsFirst(in, r)
                    /\ \A i \in (cap + 1)..Len(exp) : Relocated(r.rec, exp[i])
    IN  OfEveryCall(P)

\* C4, amended: the first cap entries that have a role or a company are kept
\* in order, and the i-th excess entry appears in the returned achievements,
\* as one string with its trimmed role and company, whenever the distinct
\* pre-existing achievements and the excess entries up to it are no more
\* than the achievements cap (6 compact, 12 otherwise).
C4_ExcessRelocatedWithinCap ==
    LET P(in, r) ==
            LET exp == Headed(in, "experience")
                cap == r.layout.maxExperienceItems
                achCap == IF r.layout.compactMode THEN 6 ELSE 12
            IN  r.outcome = "returned" =>
                    /\ KeepsFirst(in, r)
                    /\ \A i \in (cap + 1)..Len(exp) :
                          Cardinality(ExistingAchievements(in)) + (i - cap) <= achCap
                          => Relocated(r.rec, exp[i])
    IN  OfEveryCall(P)

\* 8 entries, the cap 6, and both excess entries among the achievements
C4_Witness ==
    /\ pc = "done"
    /\ out1.outcome = "returned"
    /\ Len(Headed(given, "experience")) = 8
    /\ Len(out1.rec.experience.items) = 6
    /\ Relocated(out1.rec, Headed(given, "experience")[7])
    /\ Relocated(out1.rec, Headed(given, "experience")[8])

\* the lengths of every list and of every bullet of a returned record
Shape(rec) ==
    [lists |-> [f \in ListFields |-> Len(rec[f].items)],
     bullets |-> [i \in 1..Len(rec.experience.items) |->
                    [k \in 1..Len(rec.experience.items[i].description.items) |->
                        StrLen(rec.experience.items[i].description.items[k].str)]]]

\* C5: preprocessing a preprocessed record again returns a record with the
\* same list lengths and the same bullet lengths.
C5_Idempotent ==
    pc = "twice" => /\ out2.outcome = "returned"
                    /\ Shape(out2.rec) = Shape(out1.rec)

\* C6: the lists of a returned record are within the preset of its compact
\* mode (3, 2, 2, 6, 12, 6, 3 when compact, else 6, 4, 6, 12, 30, 12, 8),
\* certifications within 20, and _layout reports one of the two presets.
C6_ListsWithinPreset ==
    LET P(in, r) ==
            LET c == r.layout.compactMode
                n(f) == Len(r.rec[f].items)
                pick(a, b) == IF c THEN a ELSE b
            IN  r.outcome = "returned" =>
                    /\ n("experience") <= pick(3, 6)
                    /\ \A i \in 1..n("experience") :
                          Len(r.rec.experience.items[i].description.items) <= pick(2, 4)
                    /\ n("education") <= pick(2, 6)
                    /\ n("achivements") <= pick(6, 12)
                    /\ n("skills") <= pick(12, 30)
                    /\ n("softSkills") <= pick(6, 12)
                    /\ n("languages") <= pick(3, 8)
                    /\ n("certifications") <= 20
                    /\ r.layout.maxExperienceItems = pick(3, 6)
                    /\ r.layout.maxBulletsPerExp = pick(2, 4)
                    /\ r.layout.maxEducationItems = pick(2, 6)
                    /\ r.layout.truncateCharPerLine = pick(120, 220)
    IN  OfEveryCall(P)

\* a record that is not compact, cut from 31 skills to 30
C6_Witness ==
    /\ pc = "done"
    /\ out1.outcome = "returned"
    /\ ~out1.layout.compactMode
    /\ Len(given.skills.items) > 30
    /\ Len(out1.rec.skills.items) = 30

\* C7: no list of a returned record is longer than the cap of the
\* LayoutConfig attached to it.
C7_ListsWithinLayoutConfig ==
    LET P(in, r) ==
            r.outcome = "returned" =>
                /\ Len(r.rec.experience.items) <= r.layoutConfig.maxExperienceItems
                /\ \A i \in 1..Len(r.rec.experience.items) :
                      Len(r.rec.experience.items[i].description.items)
                          <= r.layoutConfig.maxBulletsPerExp
                /\ Len(r.rec.education.items) <= r.layoutConfig.maxEducationItems
                /\ Len(r.rec.achivements.items) <= r.layoutConfig.maxAchievements
    IN  OfEveryCall(P)

\* the bullets of the kept entries of a call: each with the bullet it was
\* made of (trimmed), the bullet returned and the line limit
BulletsOf(in, r) ==
    LET exp == Headed(in, "experience")
        kept == r.rec.experience.items
    IN  UNION {{[src |-> TrimOrEmpty(exp[i].description.items[k]),
                 res |-> kept[i].description.items[k].str,
                 limit |-> r.layout.truncateCharPerLine] :
                    k \in 1..Len(kept[i].description.items)} : i \in 1..Len(kept)}

\* C8 as claimed: a bullet longer than the line limit L (120 compact, 220
\* otherwise) comes back as its first L-1 characters and the ellipsis, of
\* length exactly L; a bullet of at most L characters comes back unchanged.
C8_TruncatedToExactlyL ==
    LET P(in, r) ==
            r.outcome = "returned" =>
                \A b \in BulletsOf(in, r) :
                    IF StrLen(b.src) > b.limit
                    THEN /\ b.res = Cat(Slice0(b.src, b.limit - 1), Ellipsis)
                         /\ StrLen(b.res) = b.limit
                    ELSE b.res = b.src
    IN  OfEveryCall(P)

\* C8, amended: a kept bullet whose trimmed length exceeds L comes back as its
\* first L-1 characters without the blanks they end in, and the ellipsis: of
\* length at most L, and exactly L when the character L-1 is no blank; a
\* bullet of at most L characters comes back trimmed and otherwise unchanged.
C8_TruncatedAndTrimmed ==
    LET P(in, r) ==
            r.outcome = "returned" =>
                /\ r.layout.truncateCharPerLine = IF r.layout.compactMode THEN 120 ELSE 220
                /\ \A b \in BulletsOf(in, r) :
                      IF StrLen(b.src) > b.limit
                      THEN /\ b.res = Cat(TrimRight(Slice0(b.src, b.limit - 1)), Ellipsis)
                           /\ StrLen(b.res) <= b.limit
                           /\ ~IsWhite(CharAt(b.src, b.limit - 1)) => StrLen(b.res) = b.limit
                      ELSE b.res = b.src
    IN  OfEveryCall(P)

\* a bullet of 300 characters cut to 119 and the ellipsis
C8_Witness ==
    /\ pc = "done"
    /\ out1.outcome = "returned"
    /\ \E b \in BulletsOf(given, out1) :
          /\ StrLen(b.src) = 300
          /\ b.limit = 120
          /\ StrLen(b.res) = 120
          /\ CharAt(b.res, 120) = "ELLIPSIS"

\* the index of the first x in xs
FirstIndex(xs, x) == CHOOSE k \in 1..Len(xs) : xs[k] = x /\ \A m \in 1..(k - 1) : xs[m] # x

\* the pre-existing achievements (trimmed, without the empty ones), then the
\* strings made of the excess experience entries, then those made of the
\* excess education entries
AchievementSources(in, r) ==
    LET old == Items(in, "achivements")
        exp == Drop(Headed(in, "experience"), r.layout.maxExperienceItems)
        edu == Drop(Headed(in, "education"), r.layout.maxEducationItems)
    IN  [existing |-> SelectSeq([i \in 1..Len(old) |-> TrimOrEmpty(old[i])], NonEmpty),
         experience |-> [i \in 1..Len(exp) |->
                            ExperienceAchievement(exp[i], r.layout.maxBulletsPerExp)],
         education |-> [i \in 1..Len(edu) |-> EducationAchievement(edu[i])]]

CertificationPairs(rec) ==
    [i \in 1..Len(rec.certifications.items) |->
        <<rec.certifications.items[i].a.str, rec.certifications.items[i].b.str>>]

\* C10 as claimed: skills, soft skills, languages and certifications come
\* back without duplicates, each within a limit that is smaller in compact
\* mode than otherwise.
C10_FourListsDeduplicated ==
    LET P(in, r) ==
            r.outcome = "returned" =>
                /\ \A f \in {"skills", "softSkills", "languages"} :
                      /\ NoDuplicates(Texts(r.rec, f))
                      /\ Len(r.rec[f].items) <= Caps(r.layout.compactMode)[f]
                /\ NoDuplicates(CertificationPairs(r.rec))
                /\ Len(r.rec.certifications.items) <= Caps(r.layout.compactMode).certifications
                /\ \A f \in {"skills", "softSkills", "languages", "certifications"} :
                      Caps(TRUE)[f] < Caps(FALSE)[f]
    IN  OfEveryCall(P)

\* C10, amended: skills, soft skills and languages come back trimmed, without
\* empty strings and without duplicates, within 12, 6 and 3 entries in
\* compact mode and 30, 12 and 8 otherwise; certifications come back with
\* name and year trimmed, the first 20 of them in either mode, duplicates
\* included.
C10_ThreeListsDeduplicated ==
    LET P(in, r) ==
            LET pick(a, b) == IF r.layout.compactMode THEN a ELSE b
                limit == [skills |-> pick(12, 30), softSkills |-> pick(6, 12),
                          languages |-> pick(3, 8)]
                certs == Items(in, "certifications")
            IN  r.outcome = "returned" =>
                    /\ \A f \in {"skills", "softSkills", "languages"} :
                          LET got == Texts(r.rec, f)
                              had == {TrimOrEmpty(Items(in, f)[i]) :
                                         i \in 1..Len(Items(in, f))} \ {<<>>}
                          IN  /\ NoDuplicates(got)
                              /\ Range(got) \subseteq had
                              /\ Len(got) = Min(limit[f], Cardinality(had))
                    /\ CertificationPairs(r.rec) =
                          [i \in 1..Min(20, Len(certs)) |->
                              <<TrimOrEmpty(certs[i].a), TrimOrEmpty(certs[i].b)>>]
    IN  OfEveryCall(P)

\* skills that lost a duplicate and not to the cap, next to two equal
\* certifications that both stayed
C10_Witness ==
    /\ pc = "done"
    /\ out1.outcome = "returned"
    /\ Len(out1.rec.skills.items) < Len(given.skills.items)
    /\ Len(out1.rec.skills.items) < Caps(out1.layout.compactMode).skills
    /\ Len(out1.rec.certifications.items) = 2
    /\ CertificationPairs(out1.rec)[1] = CertificationPairs(out1.rec)[2]

\* an input object none of whose fields holds anything
HoldsNothing(in) ==
    /\ in.ty = "object"
    /\ \A f \in {"name", "title", "photoUrl", "summary"} : ~Truthy(in[f])
    /\ \A f \in {"phone", "email", "address", "linkedin"} : ~Truthy(in.contact[f])
    /\ \A f \in ListFields : Len(Items(in, f)) = 0

\* C11: an input object that holds nothing comes back as a record with every
\* list present and empty, not compact, of sparse density, with the warning;
\* and every call warns exactly when the record it returns has no name, no
\* title, no summary and no experience entry, and no call that throws warns.
C11_EmptyInputWarned ==
    LET P(in, r) ==
            /\ HoldsNothing(in) =>
                  /\ r.outcome = "returned"
                  /\ \A f \in ListFields : r.rec[f] = Arr(<<>>)
                  /\ ~r.layout.compactMode
                  /\ r.contentMetrics.contentDensity = "sparse"
                  /\ r.warned
            /\ r.outcome = "returned" =>
                  (r.warned <=> /\ r.rec.name.str = <<>>
                                /\ r.rec.title.str = <<>>
                                /\ r.rec.summary.str = <<>>
                                /\ r.rec.experience.items = <<>>)
            /\ r.outcome = "threw" => ~r.warned
    IN  OfEveryCall(P)

\* the object with every field undefined, processed with a warning
C11_Witness ==
    /\ pc = "done"
    /\ HoldsNothing(given)
    /\ given.experience = Undefined
    /\ out1.outcome = "returned"
    /\ out1.warned

\* the density classes
Densities == {"overflow", "dense", "normal", "sparse"}

\* C12: analyzeContent classifies the estimated height h against U = 1059
\* with strict comparisons: overflow iff h > 1.10 U, else dense iff
\* h > 0.85 U, else sparse iff h < 0.60 U, else normal; a height equal to a
\* threshold falls in the class below the comparison (normal at 85% and at
\* 60%, dense at 110%), and every height gets one class.  The heights are
\* whole pixels, so the nearest heights 900/901, 1164/1165 and 635/636 lie on
\* either side of the thresholds 900.15, 1164.9 and 635.4.
C12_DensityThresholds ==
    layoutPc \in {"analyzed", "optimized"} =>
        LET h == layoutMetrics.estimatedHeight
            class == layoutMetrics.contentDensity
        IN  /\ class \in Densities
            /\ class = "overflow" <=> h * 100 > 1059 * 110
            /\ class = "dense" <=> (h * 100 > 1059 * 85 /\ ~(h * 100 > 1059 * 110))
            /\ class = "sparse" <=> h * 100 < 1059 * 60
            /\ class = "normal" <=> (h * 100 >= 1059 * 60 /\ h * 100 <= 1059 * 85)
            /\ h * 100 = 1059 * 85 => class = "normal"
            /\ h * 100 = 1059 * 110 => class = "dense"
            /\ h * 100 = 1059 * 60 => class = "normal"
            /\ h = 900 => class = "normal"
            /\ h = 901 => class = "dense"
            /\ h = 1164 => class = "dense"
            /\ h = 1165 => class = "overflow"
            /\ h = 635 => class = "sparse"
            /\ h = 636 => class = "normal"

\* a record of 1165 pixels, the first height above 110% of U, is overflow
C12_Witness ==
    /\ layoutPc = "analyzed"
    /\ layoutMetrics.estimatedHeight = 1165
    /\ layoutMetrics.contentDensity = "overflow"

\* optimizeLayout has returned for a record of density d
OptimizedAs(d) == layoutPc = "optimized" /\ layoutMetrics.contentDensity = d

Within(x, lo, hi) == lo <= x /\ x <= hi

\* C13: for every record and template kind every value of the returned
\* LayoutConfig is inside its range: name 26..40, title 15..22, section title
\* 13..17, body 11..14, small >= 10, section spacing 16..36, item spacing
\* 10..22, line height 1.3..1.6, padding >= 24, a sidebar width 180..250, and
\* the caps positive (experience >= 3, bullets >= 2, achievements >= 4).
C13_ConfigWithinRanges ==
    layoutPc = "optimized" =>
        LET c == layoutResult
        IN  /\ Within(c.nameFontSize, 26, 40)
            /\ Within(c.titleFontSize, 15, 22)
            /\ Within(c.sectionTitleFontSize, 13, 17)
            /\ Within(c.bodyFontSize, 11, 14)
            /\ c.smallFontSize >= 10
            /\ Within(c.sectionSpacing, 16, 36)
            /\ Within(c.itemSpacing, 10, 22)
            /\ Within(c.lineHeight, 13, 16)
            /\ c.containerPadding >= 24
            /\ c.sidebarWidth # 0 => Within(c.sidebarWidth, 180, 250)
            /\ c.maxExperienceItems >= 3
            /\ c.maxBulletsPerExp >= 2
            /\ c.maxAchievements >= 4
            /\ c.maxEducationItems > 0
            /\ c.maxSkillsDisplay > 0

\* the creative template on an overflowing record: section spacing 22 - 8
\* stopped at the floor 16
C13_Witness ==
    /\ OptimizedAs("overflow")
    /\ layoutTemplate = "creative"
    /\ layoutResult.sectionSpacing = 16
    /\ layoutResult.maxBulletsPerExp = 2

\* C14: for overflow every font size and spacing is the base less its
\* decrement, not below its floor and strictly below the base; the caps are
\* max(base-2,3), max(base-1,2), max(base-2,4); compact mode is on, the scale
\* factor 0.95, and a sidebar is 30 narrower, not below 180.
C14_OverflowShrinks ==
    OptimizedAs("overflow") =>
        LET c == layoutResult
            base == baseConfigs[layoutTemplate]
            Shrunk(f, by, floor) ==
                c[f] = Max(base[f] - by, floor) /\ c[f] < base[f] /\ c[f] >= floor
        IN  /\ Shrunk("nameFontSize", 6, 26)
            /\ Shrunk("titleFontSize", 3, 15)
            /\ Shrunk("sectionTitleFontSize", 2, 13)
            /\ Shrunk("bodyFontSize", 1, 11)
            /\ Shrunk("smallFontSize", 1, 10)
            /\ Shrunk("sectionSpacing", 8, 16)
            /\ Shrunk("itemSpacing", 4, 10)
            /\ Shrunk("containerPadding", 8, 24)
            /\ c.lineHeight < base.lineHeight /\ c.lineHeight >= 13
            /\ c.maxExperienceItems = Max(base.maxExperienceItems - 2, 3)
            /\ c.maxBulletsPerExp = Max(base.maxBulletsPerExp - 1, 2)
            /\ c.maxAchievements = Max(base.maxAchievements - 2, 4)
            /\ c.compactMode
            /\ c.scaleFactor = 95
            /\ base.sidebarWidth # 0 =>
                  (c.sidebarWidth = Max(base.sidebarWidth - 30, 180) /\ c.sidebarWidth >= 180)
            /\ base.sidebarWidth = 0 => c.sidebarWidth = 0

\* the modern template on an overflowing record: sidebar 220 - 30
C14_Witness ==
    /\ OptimizedAs("overflow")
    /\ layoutTemplate = "modern"
    /\ layoutResult.sidebarWidth = 190
    /\ layoutResult.maxExperienceItems = 3

\* the values the dense case sets and the caps it leaves alone
DenseValues(c, base) ==
    /\ c.compactMode
    /\ c.scaleFactor = 98
    /\ c.nameFontSize = Max(base.nameFontSize - 2, 28)
    /\ c.sectionSpacing = Max(base.sectionSpacing - 4, 18)
    /\ c.maxBulletsPerExp = Max(base.maxBulletsPerExp - 1, 3)
    /\ \A f \in {"maxExperienceItems", "maxEducationItems", "maxSkillsDisplay",
                  "maxAchievements"} : c[f] = base[f]

\* C15 as claimed: for dense, compact mode on, scale factor 0.98, name font
\* max(base-2,28), section spacing max(base-4,18), bullets cap max(base-1,3),
\* each lowered by less than the overflow case lowers it, the other caps
\* as the base has them.
C15_DenseSmallerDecrements ==
    OptimizedAs("dense") =>
        LET c == layoutResult
            base == baseConfigs[layoutTemplate]
            over == AdjustForDensity(base, layoutTemplate, "overflow")
        IN  /\ DenseValues(c, base)
            /\ \A f \in {"nameFontSize", "sectionSpacing", "maxBulletsPerExp"} :
                  base[f] - c[f] < base[f] - over[f]

\* C15, amended: as claimed, but each of the three is lowered by no more
\* than the overflow case lowers it: name font and section spacing by less,
\* the bullets cap by the same decrement of 1 with the floor 3 instead of 2
\* (so by as much as overflow for minimal and modern, 4 to 3).
C15_DenseNoLargerDecrements ==
    OptimizedAs("dense") =>
        LET c == layoutResult
            base == baseConfigs[layoutTemplate]
            over == AdjustForDensity(base, layoutTemplate, "overflow")
        IN  /\ DenseValues(c, base)
            /\ \A f \in {"nameFontSize", "sectionSpacing"} :
                  base[f] - c[f] < base[f] - over[f]
            /\ base.maxBulletsPerExp - c.maxBulletsPerExp
                  <= base.maxBulletsPerExp - over.maxBulletsPerExp
            /\ layoutTemplate \in {"minimal", "modern"} =>
                  (c.maxBulletsPerExp = 3 /\ over.maxBulletsPerExp = 3)

\* the minimal template on a dense record: name 32 - 2, bullets 4 - 1
C15_Witness ==
    /\ OptimizedAs("dense")
    /\ layoutTemplate = "minimal"
    /\ layoutResult.nameFontSize = 30
    /\ layoutResult.maxBulletsPerExp = 3

\* C16: for sparse, compact mode is off, the scale factor 1.02, no font size
\* or spacing is below the base or above its ceiling (name 40, title 22,
\* section title 17, body 14, section spacing 36, item spacing 22, line
\* height 1.6), the caps are the base's, and a sidebar is 20 wider, not
\* above 250.
C16_SparseGrows ==
    OptimizedAs("sparse") =>
        LET c == layoutResult
            base == baseConfigs[layoutTemplate]
            Grown(f, ceiling) == c[f] >= base[f] /\ c[f] <= ceiling
        IN  /\ ~c.compactMode
            /\ c.scaleFactor = 102
            /\ Grown("nameFontSize", 40)
            /\ Grown("titleFontSize", 22)
            /\ Grown("sectionTitleFontSize", 17)
            /\ Grown("bodyFontSize", 14)
            /\ Grown("sectionSpacing", 36)
            /\ Grown("itemSpacing", 22)
            /\ Grown("lineHeight", 16)
            /\ c.smallFontSize >= base.smallFontSize
            /\ c.containerPadding >= base.containerPadding
            /\ \A f \in {"maxExperienceItems", "maxEducationItems", "maxBulletsPerExp",
                          "maxSkillsDisplay", "maxAchievements"} : c[f] = base[f]
            /\ base.sidebarWidth # 0 =>
                  (c.sidebarWidth = Min(base.sidebarWidth + 20, 250) /\ c.sidebarWidth <= 250)
            /\ base.sidebarWidth = 0 => c.sidebarWidth = 0

\* the modern template on a sparse record: name 36 + 4 at the ceiling 40,
\* sidebar 220 + 20
C16_Witness ==
    /\ OptimizedAs("sparse")
    /\ layoutTemplate = "modern"
    /\ layoutResult.nameFontSize = 40
    /\ layoutResult.sidebarWidth = 240

\* the record the preprocessor measures: the validated deep copy of the input
Measured(in) == DeepCopy(validateResumeData(in))

\* the characters of the fields the count of lines 66-92 leaves out
UncountedChars(data) ==
    joinSimple(data.interests.items) + StrLen(data.photoUrl.str)
    + StrLen(data.contact.phone.str) + StrLen(data.contact.email.str)
    + StrLen(data.contact.address.str) + StrLen(data.contact.linkedin.str)

\* C17 as claimed: _layout.compactMode is true exactly when the character
\* count of all textual fields, floored at 50, exceeds 2200 or the height
\* estimate of estimateContentHeight exceeds 800 pixels.
C17_CompactFromAllText ==
    LET P(in, r) ==
            r.outcome = "returned" =>
                LET data == Measured(in)
                IN  r.layout.compactMode <=>
                        \/ Max(countedChars(data) + UncountedChars(data), 50) > 2200
                        \/ estimateContentHeight(data) > 4 * 800
    IN  OfEveryCall(P)

\* C17, amended: _layout.compactMode is true exactly when the count of the
\* preprocessor, floored at 50, exceeds 2200 or the height estimate exceeds
\* 800 pixels; the count is the length of name, title and summary and of the
\* joined text of experience, education, skills, soft skills, achievements,
\* languages, certifications and volunteer entries, and leaves out the
\* interests, the contact fields and the photo URL.
C17_CompactFromCountedText ==
    LET P(in, r) ==
            r.outcome = "returned" =>
                LET data == Measured(in)
                IN  /\ r.layout.compactMode <=>
                            \/ Max(countedChars(data), 50) > 2200
                            \/ estimateContentHeight(data) > 4 * 800
                    /\ (countedChars(data) <= 2200 /\ estimateContentHeight(data) <= 4 * 800
                         /\ UncountedChars(data) > 2200) => ~r.layout.compactMode
    IN  OfEveryCall(P)

\* few characters and a height estimate above 800: compact by the estimate
C17_Witness ==
    /\ pc = "done"
    /\ out1.outcome = "returned"
    /\ out1.layout.compactMode
    /\ totalChars(Measured(given)) < 800
    /\ estimateContentHeight(Measured(given)) > 4 * 800

\* an input object that holds a name of at most 24 characters and nothing else
NameOnly(in) ==
    /\ in.ty = "object"
    /\ Truthy(in.name) /\ StrLen(in.name.str) <= 24
    /\ \A f \in {"title", "photoUrl", "summary"} : ~Truthy(in[f])
    /\ \A f \in {"phone", "email", "address", "linkedin"} : ~Truthy(in.contact[f])
    /\ \A f \in ListFields : Len(Items(in, f)) = 0

\* C18: an input whose only content is a name of at most 24 characters comes
\* back with _layout.compactMode false, with _layout.nameFontSize at least 40
\* and at most 52 (it is 52: 44 scaled by 1.19 for the floor of 50 characters),
\* and with every list field present as an empty list.
C18_NameOnlyNotCompact ==
    LET P(in, r) ==
            NameOnly(in) =>
                /\ r.outcome = "returned"
                /\ ~r.layout.compactMode
                /\ r.layout.nameFontSize >= 40 /\ r.layout.nameFontSize <= 52
                /\ r.layout.nameFontSize = 52
                /\ \A f \in ListFields : r.rec[f] = Arr(<<>>)
    IN  OfEveryCall(P)

\* the object whose only field is a name of 24 characters, processed
C18_Witness ==
    /\ pc = "done"
    /\ NameOnly(given)
    /\ StrLen(given.name.str) = 24
    /\ given.experience = Undefined
    /\ out1.outcome = "returned"
    /\ out1.layout.nameFontSize = 52
    /\ ~out1.layout.compactMode

\* a record that is a title of MEDIUM_CHARS + 1 characters and little else
LongTitleRecord == MkInput([Plain EXCEPT !.padTo = MEDIUM_CHARS + 1])

\* a record of 3 experience entries of 4 bullets, 4 education entries and 12
\* skills, soft skills and languages, all of them short
ManyItemsRecord ==
    BaseInput([Plain EXCEPT !.nExp = 3, !.nb = 4, !.nEdu = 4, !.nSimple = 12])

\* C19: the compact flag of the preprocessor and the density of the optimizer
\* can disagree on the same record, in either direction: the long title is
\* compact for the preprocessor (more than 2200 characters) and sparse, not
\* compact, for the optimizer; the record of many short items is not compact
\* for the preprocessor (760 px, 241 characters) and dense, compact, for the
\* optimizer (957 px); the optimizer's flag always follows its own density.
C19_FlagAndDensityDisagree ==
    LET P(in, r) ==
            /\ in = LongTitleRecord =>
                  /\ r.outcome = "returned"
                  /\ r.layout.compactMode
                  /\ r.contentMetrics.contentDensity = "sparse"
                  /\ ~r.layoutConfig.compactMode
            /\ in = ManyItemsRecord =>
                  /\ r.outcome = "returned"
                  /\ ~r.layout.compactMode
                  /\ r.contentMetrics.contentDensity = "dense"
                  /\ r.layoutConfig.compactMode
            /\ r.outcome = "returned" =>
                  (r.layoutConfig.compactMode
                     <=> r.contentMetrics.contentDensity \in {"overflow", "dense"})
    IN  OfEveryCall(P)

\* the record of many short items, processed: not compact and dense; the
\* long title is an input too, and is compact and sparse
C19_Witness ==
    /\ pc = "done"
    /\ given = ManyItemsRecord
    /\ out1.outcome = "returned"
    /\ ~out1.layout.compactMode
    /\ out1.contentMetrics.contentDensity = "dense"
    /\ out1.layoutConfig.compactMode
    /\ LongTitleRecord \in Inputs
    /\ preprocessResume(LongTitleRecord).layout.compactMode
    /\ preprocessResume(LongTitleRecord).contentMetrics.contentDensity = "sparse"

\* C20: with several requests in flight on the one selector, each calling a
\* selection and later recordUsage once for the model it was given, within
\* one minute and one day no model's requestsThisMinute exceeds its rpm and
\* no model's requestsToday exceeds its rpd.
C20_LimitsHoldInFlight ==
    now = born =>
        \A n \in ModelNames :
            /\ usage[n].requestsThisMinute <= models(n).rpm
            /\ usage[n].requestsToday <= models(n).rpd

\* the recordUsage calls made for the name n in the day of the minute t
RecordedInDayOf(n, t) ==
    LET same == {s \in Minutes : s \div MinutesPerDay = t \div MinutesPerDay}
    IN  TotalOver([s \in same |-> recorded[n][s].calls], same)

\* C21: what getUsageStats returns for each known model is: requestsThisMinute
\* the number of recordUsage calls made for it in the current minute,
\* tokensThisMinute the sum of their tokens, requestsToday the number of
\* recordUsage calls made for it in the current day; so a minute rollover
\* alone empties the minute counters and leaves requestsToday, and calls for
\* an unknown name are seen nowhere: the table holds the known names only.
C21_CountersMatchRecordedCalls ==
    /\ lastCall.op = "getUsageStats" =>
          \A n \in ModelNames :
              LET seen == lastCall.result[n].current
              IN  /\ seen.requestsThisMinute = recorded[n][now].calls
                  /\ seen.tokensThisMinute = recorded[n][now].tokens
                  /\ seen.requestsToday = RecordedInDayOf(n, now)
    /\ DOMAIN usage = ModelNames

\* one call recorded for a model in each of two minutes of one day, and
\* getUsageStats called after the rollover: 1 this minute, 2 today
C21_Witness ==
    /\ lastCall.op = "getUsageStats"
    /\ now = born + 1
    /\ now \div MinutesPerDay = born \div MinutesPerDay
    /\ \E n \in ModelNames :
          /\ recorded[n][born].calls = 1
          /\ recorded[n][now].calls = 1
          /\ lastCall.result[n].current.requestsThisMinute = 1
          /\ lastCall.result[n].current.requestsToday = 2

\* the counters of the model n as they count now: those of a minute or a
\* day that is over count as 0
CountsNow(n) ==
    [requestsThisMinute |-> IF now > usage[n].lastResetMinute THEN 0
                            ELSE usage[n].requestsThisMinute,
     tokensThisMinute |-> IF now > usage[n].lastResetMinute THEN 0
                          ELSE usage[n].tokensThisMinute,
     requestsToday |-> IF now \div MinutesPerDay > usage[n].lastResetDay THEN 0
                       ELSE usage[n].requestsToday]

\* the models available now for a request of so many tokens
AvailableNow(estimatedTokens) ==
    {m \in ModelSet :
        /\ CountsNow(m.name).requestsThisMinute < m.rpm
        /\ CountsNow(m.name).tokensThisMinute + estimatedTokens <= m.tpm
        /\ CountsNow(m.name).requestsToday < m.rpd}

\* the name of the model of highest, or of lowest, priority in a set of
\* models, and null for the empty set
BestOf(ms, highest) ==
    IF ms = {} THEN NoModel
    ELSE (CHOOSE m \in ms :
            \A o \in ms : IF highest THEN o.priority <= m.priority
                          ELSE o.priority >= m.priority).name

\* C22: selectModel(estimatedTokens, preferHighPerformance) returns the
\* available model of highest priority, of lowest priority when
\* preferHighPerformance is false, available meaning requestsThisMinute < rpm,
\* tokensThisMinute + estimatedTokens <= tpm and requestsToday < rpd after the
\* rollover resets; it returns null exactly when no model is available.
C22_SelectModelBestAvailable ==
    lastCall.op = "selectModel" =>
        /\ lastCall.result = BestOf(AvailableNow(lastCall.args[1]), lastCall.args[2])
        /\ lastCall.result = NoModel <=> AvailableNow(lastCall.args[1]) = {}

\* the lowest model has used up its minute: selectModel(1000, false) returns
\* the next one up
C22_Witness ==
    /\ lastCall.op = "selectModel"
    /\ lastCall.args = <<1000, FALSE>>
    /\ lastCall.result = "gemini-2.5-flash-lite"
    /\ recorded["gemini-2.0-flash-lite"][now].tokens >= 1000000

\* what the list f adds to the estimated height of the analyzed record: the
\* height found, less the height of the record with the list emptied
Adds(f) ==
    layoutMetrics.estimatedHeight
    - analyzeContent([layoutData EXCEPT ![f] = Arr(<<>>)]).estimatedHeight

\* C24: in analyzeContent the experience list adds at most
\* 35 + 6 * 60 + 24 * 16 pixels to the estimated height and the education
\* list at most 35 + 4 * 45, whatever their lengths; beyond 6 experience
\* entries the per-entry cost stays 6 * 60 and the bullets counted stay at
\* most 4 * 6; an empty list adds 0.
C24_SectionHeightsBounded ==
    layoutPc # "idle" =>
        LET m == layoutMetrics
        IN  /\ Within(Adds("experience"), 0, 35 + 6 * 60 + 24 * 16)
            /\ Within(Adds("education"), 0, 35 + 4 * 45)
            /\ m.experienceCount = 0 => Adds("experience") = 0
            /\ m.educationCount = 0 => Adds("education") = 0
            /\ m.experienceCount >= 6 =>
                  Adds("experience") = 35 + 6 * 60 + Min(m.totalBulletPoints, 24) * 16
            /\ m.educationCount >= 4 => Adds("education") = 35 + 4 * 45

\* more than 6 experience entries with more than 24 bullets and more than 4
\* education entries: both lists add their most
C24_Witness ==
    /\ layoutPc = "analyzed"
    /\ layoutMetrics.experienceCount > 6
    /\ layoutMetrics.totalBulletPoints > 24
    /\ layoutMetrics.educationCount > 4
    /\ Adds("experience") = 35 + 6 * 60 + 24 * 16
    /\ Adds("education") = 35 + 4 * 45

\* the models that are not lite
HighPerformance ==
    {m \in ModelSet : m.name \in {"gemini-2.5-pro", "gemini-2.5-flash", "gemini-2.0-flash"}}

\* C25: selectForUseCase('complex-analysis') returns the first available of
\* gemini-2.5-pro, gemini-2.5-flash, gemini-2.0-flash, and null when none of
\* the three is available, even if a lite model is: never a lite model;
\* 'simple-task' returns the available model of lowest priority and
\* 'resume-generation' the one of highest priority.  The request counts as
\* 5000, 500 and 2000 tokens when no estimate is passed.
C25_UseCaseSelection ==
    lastCall.op = "selectForUseCase" =>
        LET useCase == lastCall.args[1]
            tokens == IF lastCall.args[2] # 0 THEN lastCall.args[2]
                      ELSE IF useCase = "complex-analysis" THEN 5000
                      ELSE IF useCase = "simple-task" THEN 500
                      ELSE 2000
            available == AvailableNow(tokens)
        IN  /\ useCase = "complex-analysis" =>
                  /\ lastCall.result = BestOf(available \cap HighPerformance, TRUE)
                  /\ lastCall.result \in {m.name : m \in HighPerformance} \cup {NoModel}
            /\ useCase = "simple-task" => lastCall.result = BestOf(available, FALSE)
            /\ useCase = "resume-generation" => lastCall.result = BestOf(available, TRUE)

\* complex analysis of 1000000 tokens after gemini-2.0-flash has recorded:
\* null, while a lite model is available
C25_Witness ==
    /\ lastCall.op = "selectForUseCase"
    /\ lastCall.args = <<"complex-analysis", 1000000>>
    /\ lastCall.result = NoModel
    /\ AvailableNow(1000000) # {}
    /\ recorded["gemini-2.0-flash"][now].calls > 0

\* the models of lower priority than the model named n
LowerThan(n) ==
    {m \in ModelSet : \E c \in ModelSet : c.name = n /\ m.priority < c.priority}

\* C26: getNextBestModel(currentModel) returns, for each of the five model
\* names, the first available model after currentModel in the chain of
\* descending priority, that is the available model of highest priority
\* below currentModel: never currentModel, never a model above it, and null
\* when none below it is available (always null for the last of the chain).
\* For a name that is not in the chain the whole chain is gone through.
C26_NextBestIsLower ==
    lastCall.op = "getNextBestModel" =>
        LET currentModel == lastCall.args[1]
        IN  /\ currentModel \in ModelNames =>
                  /\ lastCall.result = BestOf(AvailableNow(1000) \cap LowerThan(currentModel), TRUE)
                  /\ lastCall.result # currentModel
                  /\ lastCall.result \in {m.name : m \in LowerThan(currentModel)} \cup {NoModel}
            /\ currentModel \notin ModelNames =>
                  lastCall.result = BestOf(AvailableNow(1000), TRUE)

\* gemini-2.5-flash has used up its minute: the next best after
\* gemini-2.5-pro is gemini-2.0-flash
C26_Witness ==
    /\ lastCall.op = "getNextBestModel"
    /\ lastCall.args = <<"gemini-2.5-pro">>
    /\ lastCall.result = "gemini-2.0-flash"
    /\ recorded["gemini-2.5-flash"][now].tokens >= 1000000

\* one record of each density class: 4 education entries, 12 skills, soft
\* skills and languages, and 0, 2, 3 or 6 experience entries of 4 bullets
RecordOfDensity(d) ==
    BaseInput([Plain EXCEPT !.nb = 4, !.nEdu = 4, !.nSimple = 12,
                            !.nExp = CASE d = "sparse" -> 0
                                       [] d = "normal" -> 2
                                       [] d = "dense" -> 3
                                       [] d = "overflow" -> 6])

\* C27: the LayoutConfig optimizeLayout returns depends on the template kind
\* and the density class only: it is the configuration returned for the one
\* record RecordOfDensity of the same class; compactMode is true exactly for
\* dense and overflow; scaleFactor is 0.95, 0.98, 1.0, 1.02 for overflow,
\* dense, normal, sparse; for normal the configuration is the template's base
\* values, with the template kind, compactMode false and scaleFactor 1.0.
C27_ConfigFromTemplateAndDensity ==
    layoutPc = "optimized" =>
        LET d == layoutMetrics.contentDensity
            c == layoutResult
        IN  /\ analyzeContent(RecordOfDensity(d)).contentDensity = d
            /\ c = optimizeLayout(RecordOfDensity(d), layoutTemplate)
            /\ c.compactMode <=> d \in {"dense", "overflow"}
            /\ c.scaleFactor = CASE d = "overflow" -> 95
                                 [] d = "dense" -> 98
                                 [] d = "normal" -> 100
                                 [] d = "sparse" -> 102
            /\ d = "normal" =>
                  /\ \A f \in DOMAIN baseConfigs[layoutTemplate] :
                        c[f] = baseConfigs[layoutTemplate][f]
                  /\ DOMAIN c = DOMAIN baseConfigs[layoutTemplate]
                                  \cup {"templateType", "compactMode", "scaleFactor"}
                  /\ c.templateType = layoutTemplate

\* a record with a photo, other than the record of its class, optimized: of
\* normal density, with the base values
C27_Witness ==
    /\ OptimizedAs("normal")
    /\ Truthy(layoutData.photoUrl)
    /\ layoutData # RecordOfDensity("normal")
    /\ layoutResult.nameFontSize = baseConfigs[layoutTemplate].nameFontSize
    /\ layoutResult = optimizeLayout(RecordOfDensity("normal"), layoutTemplate)

\* the density classes from the fullest page to the emptiest
DensityRank(d) ==
    CASE d = "overflow" -> 1 [] d = "dense" -> 2 [] d = "normal" -> 3 [] d = "sparse" -> 4

\* C28: for each template kind every font size, spacing, line height,
\* padding, cap, sidebar width and the scale factor of the LayoutConfig is
\* non-decreasing along overflow, dense, normal, sparse: the configuration of
\* a record is in no value above that of a record of a sparser class and in
\* no value below that of a record of a denser class.
C28_MonotoneInDensity ==
    layoutPc = "optimized" =>
        \A d \in Densities :
            LET other == optimizeLayout(RecordOfDensity(d), layoutTemplate)
                mine == DensityRank(layoutMetrics.contentDensity)
            IN  \A f \in DOMAIN baseConfigs[layoutTemplate] \cup {"scaleFactor"} :
                    /\ DensityRank(d) <= mine => other[f] <= layoutResult[f]
                    /\ DensityRank(d) >= mine => other[f] >= layoutResult[f]

\* a dense record in the modern template: name 34 between 30 and 36, section
\* spacing 24 between 20 and 28, sidebar 220 between 190 and 240
C28_Witness ==
    /\ OptimizedAs("dense")
    /\ layoutTemplate = "modern"
    /\ layoutResult.nameFontSize = 34
    /\ layoutResult.sectionSpacing = 24
    /\ optimizeLayout(RecordOfDensity("overflow"), "modern").sectionSpacing = 20
    /\ optimizeLayout(RecordOfDensity("sparse"), "modern").sidebarWidth = 240

Counters == {"requestsThisMinute", "requestsToday", "tokensThisMinute"}

\* C29: in every state of the selector, whatever methods were called and
\* however the clock advanced, each model's counters are non-negative and
\* requestsThisMinute <= requestsToday; and a step that increases a counter
\* is a recordUsage call: selectModel, selectForUseCase, getNextBestModel
\* and getUsageStats never increase one.
C29_CountersSound ==
    /\ [](\A n \in ModelNames :
            /\ \A c \in Counters : usage[n][c] >= 0
            /\ usage[n].requestsThisMinute <= usage[n].requestsToday)
    /\ [][(\E n \in ModelNames : \E c \in Counters : usage'[n][c] > usage[n][c])
            => lastCall'.op = "recordUsage"]_vars

\* a call recorded before midnight and one after it for the same model, and
\* the statistics read: the day's count has restarted and stands at 1
C29_Witness ==
    /\ lastCall.op = "getUsageStats"
    /\ now \div MinutesPerDay > born \div MinutesPerDay
    /\ \E n \in ModelNames :
          /\ recorded[n][born].calls = 1
          /\ recorded[n][now].calls = 1
          /\ usage[n].requestsThisMinute = 1
          /\ usage[n].requestsToday = 1

-----------------------------------------------------------------------------
(* The callers of preprocessResume: pages/resumePreview.tsx and            *)
(* components/templateindex.tsx                                            *)

\* JSON.stringify(v), for a value that came out of JSON: the text that
\* JSON.parse reads back as v
stringify(v) == [ty |-> "json", text |-> v]

\* a text that JSON.parse raises a SyntaxError on
Garbage == [ty |-> "garbage"]

\* the record preprocessResume returned, with _layout, _layoutConfig and
\* _contentMetrics in it
WithLayout(r) ==
    [ty |-> "processed", rec |-> r.rec, layout |-> r.layout,
     layoutConfig |-> r.layoutConfig, contentMetrics |-> r.contentMetrics]

\* the catch that hands nothing on
processedOrUnset(record) ==
    LET r == preprocessResume(record)
    IN  IF r.outcome = "threw" THEN Unset ELSE WithLayout(r)

\* try { processed = preprocessResume(record); hand on processed }
\* catch { hand on record }
processedOrRaw(record) ==
    LET r == preprocessResume(record)
    IN  IF r.outcome = "threw" THEN record ELSE WithLayout(r)

\* a record with a few entries in every list
Filled ==
    [Plain EXCEPT !.nExp = 2, !.nEdu = 2, !.nb = 2, !.nCert = 2, !.nAch = 2, !.nVol = 2,
                  !.nSimple = 4]

\* the objects a caller holds: well formed, with an education entry that is
\* null, with a skill that is a number, and without a name
CallerObjects ==
    {MkInput(Filled), MkInput([Filled EXCEPT !.mal = "nullEdu"]),
     MkInput([Filled EXCEPT !.mal = "numSkill"]), MkInput([Filled EXCEPT !.nameLen = 0])}

\* what JSON.parse gives: an object or null
CallerRecords == CallerObjects \cup {NullInput}

\* the steps at which the mounted component has called preprocessResume(raw)
\* and the call has returned or thrown
Handled == {"loaded", "saved", "rendered", "leaving", "left"}

\* Math.floor(Math.random() * 10) + 5: the least and the greatest increment
Increments == {5, 14}

Pages == {"preview", "gallery", "home"}

\* the component is mounted; the gallery holds the record it imports
CallersInit ==
    /\ page \in Pages
    /\ raw \in IF page = "gallery" THEN CallerObjects ELSE {Unset}
    /\ handed = Unset
    /\ shownError = {}
    /\ step = "idle"
    /\ loading = FALSE
    /\ loadingProgress = 0
    /\ intervals = {}
    /\ timeoutArmed = FALSE
    /\ runs = 0
    /\ PreprocessOff
    /\ LayoutOff
    /\ SelectorOff

\* ResumePreview: useEffect(() => { ... }, [data, id, template]); the query
\* holds no data, a text that does not parse, or the text of a record
PreviewLoad ==
    /\ page = "preview"
    /\ step = "idle"
    /\ \E data \in {Undefined, Garbage} \cup {stringify(r) : r \in CallerRecords} :
          IF data.ty = "undefined"
          THEN /\ step' = "empty"
               /\ UNCHANGED <<raw, handed, shownError>>
          ELSE IF data.ty = "garbage"
          THEN /\ step' = "invalid"
               /\ shownError' = {"Invalid resume data"}
               /\ UNCHANGED <<raw, handed>>
          ELSE /\ step' = "loaded"
               /\ raw' = data.text
               /\ handed' = processedOrRaw(data.text)
               /\ shownError' = {}
    /\ UNCHANGED <<page, loading, loadingProgress, intervals, timeoutArmed, runs,
                   preprocessVars, layoutVars, selectorVars>>

\* ResumePreview: handleEditSave(updatedData); the state saved in
\* localStorage reads back, or JSON.parse raises on it
HandleEditSave ==
    /\ page = "preview"
    /\ step \in {"loaded", "saved", "saveFailed"}
    /\ \E updatedData \in CallerObjects, stored \in BOOLEAN :
          IF stored
          THEN /\ step' = "saved"
               /\ raw' = updatedData
               /\ handed' = processedOrRaw(updatedData)
               /\ shownError' = {}
          ELSE /\ step' = "saveFailed"
               /\ shownError' = {"Save failed"}
               /\ UNCHANGED <<raw, handed>>
    /\ UNCHANGED <<page, loading, loadingProgress, intervals, timeoutArmed, runs,
                   preprocessVars, layoutVars, selectorVars>>

\* TemplatesIndex: useMemo(() => { ... }, [])
GalleryMemo ==
    /\ page = "gallery"
    /\ step = "idle"
    /\ handed' = processedOrRaw(raw)
    /\ step' = "rendered"
    /\ UNCHANGED <<page, raw, shownError, loading, loadingProgress, intervals,
                   timeoutArmed, runs, preprocessVars, layoutVars, selectorVars>>

\* finally { clearTimeout(timeoutId); setLoading(false) }
Finally ==
    /\ timeoutArmed' = FALSE
    /\ loading' = FALSE

\* HomeContent: handleSubmit, up to `await fetch`.  The button is disabled
\* while loading.
HandleSubmit ==
    /\ page = "home"
    /\ step = "idle"
    /\ ~loading
    /\ runs < MaxSubmits
    /\ \E valid \in BOOLEAN :
          IF ~valid
          THEN /\ shownError' = {"Please fill in all required fields."}
               /\ UNCHANGED <<step, loading, loadingProgress, intervals, timeoutArmed, runs>>
          ELSE /\ shownError' = {}
               /\ loading' = TRUE
               /\ loadingProgress' = 0
               /\ timeoutArmed' = TRUE
               /\ runs' = runs + 1
               /\ intervals' = intervals \cup {runs + 1}
               /\ step' = "fetch"
    /\ UNCHANGED <<page, raw, handed, preprocessVars, layoutVars, selectorVars>>

\* HomeContent: a progressInterval that is still set fires
ProgressTick ==
    /\ page = "home"
    /\ step # "left"
    /\ intervals # {}
    /\ \E increment \in Increments :
          loadingProgress' = IF loadingProgress < 90
                             THEN Min(loadingProgress + increment, 90)
                             ELSE loadingProgress
    /\ UNCHANGED <<page, raw, handed, shownError, step, loading, intervals, timeoutArmed,
                   runs, preprocessVars, layoutVars, selectorVars>>

\* HomeContent: `await fetch` ends: a response, OK or not, or a rejection,
\* which the outer catch takes
FetchSettles ==
    /\ page = "home"
    /\ step = "fetch"
    /\ \E settled \in {"ok", "notOk", "rejected"} :
          IF settled = "rejected"
          THEN /\ intervals' = intervals \ {runs}
               /\ shownError' = {"Unknown error"}
               /\ step' = "idle"
               /\ Finally
          ELSE /\ step' = IF settled = "ok" THEN "json" ELSE "jsonNotOk"
               /\ UNCHANGED <<intervals, shownError, loading, timeoutArmed>>
    /\ UNCHANGED <<page, raw, handed, loadingProgress, runs,
                   preprocessVars, layoutVars, selectorVars>>

\* HomeContent: the 30 s timer fires: controller.abort() rejects the pending
\* fetch, which the outer catch takes, or the pending resp.json(), which the
\* catch around it takes
TimeoutFires ==
    /\ page = "home"
    /\ timeoutArmed
    /\ step \in {"fetch", "json", "jsonNotOk"}
    /\ IF step = "fetch"
       THEN /\ intervals' = intervals \ {runs}
            /\ shownError' = {"Request timed out. Please try again."}
       ELSE /\ shownError' = {"Unexpected response from server."}
            /\ UNCHANGED intervals
    /\ step' = "idle"
    /\ Finally
    /\ UNCHANGED <<page, raw, handed, loadingProgress, runs,
                   preprocessVars, layoutVars, selectorVars>>

\* HomeContent: `await resp.json()` ends, and handleSubmit runs to its end:
\* the body does not parse, or holds payload.data
BodySettles ==
    /\ page = "home"
    /\ step \in {"json", "jsonNotOk"}
    /\ \E data \in {Garbage, Undefined} \cup CallerRecords :
          IF data.ty = "garbage"
          THEN /\ shownError' = {"Unexpected response from server."}
               /\ step' = "idle"
               /\ UNCHANGED <<raw, handed, loadingProgress, intervals>>
          ELSE IF step = "jsonNotOk"
          THEN /\ shownError' = {"Server returned an error"}
               /\ step' = "idle"
               /\ UNCHANGED <<raw, handed, loadingProgress, intervals>>
          ELSE IF data.ty \in {"undefined", "null"} \/ ~Truthy(data.name)
          THEN /\ shownError' = {"Model returned invalid resume data."}
               /\ step' = "idle"
               /\ UNCHANGED <<raw, handed, loadingProgress, intervals>>
          ELSE /\ raw' = data
               /\ handed' = stringify(processedOrRaw(data))
               /\ intervals' = intervals \ {runs}
               /\ loadingProgress' = 100
               /\ step' = "leaving"
               /\ UNCHANGED shownError
    /\ Finally
    /\ UNCHANGED <<page, runs, preprocessVars, layoutVars, selectorVars>>

\* HomeContent: setTimeout(() => { router.push(url) }, 800) fires, and the
\* preview page takes the place of the home page
Navigate ==
    /\ page = "home"
    /\ step = "leaving"
    /\ step' = "left"
    /\ UNCHANGED <<page, raw, handed, shownError, loading, loadingProgress, intervals,
                   timeoutArmed, runs, preprocessVars, layoutVars, selectorVars>>

CallersNext ==
    \/ PreviewLoad \/ HandleEditSave \/ GalleryMemo
    \/ HandleSubmit \/ ProgressTick \/ FetchSettles \/ TimeoutFires \/ BodySettles
    \/ Navigate

SpecCallers == CallersInit /\ [][CallersNext]_vars

\* the record in what was handed on: router.push is handed its JSON text
Content(h) == IF h.ty = "json" THEN h.text ELSE h

\* preprocessResume threw in the handler the mounted component ran last
ThrewInCaller == step \in Handled /\ preprocessResume(raw).outcome = "threw"

C30_TimerClearedOnExit ==
    page = "home" =>
        /\ (~loading => intervals = {})
        /\ (loading => intervals \subseteq {runs})
        /\ (loading => loadingProgress <= 90)

=============================================================================
